---- MODULE Spec2Model ----
(***************************************************************************)
(* Model of the skill taxonomy (backend/skill_matcher.py) and the weighted *)
(* scoring engine (backend/scoring_engine.py) of ResumeCheckerAPI.         *)
(*                                                                         *)
(* Text is a sequence of one-character strings.  Python floats are IEEE    *)
(* binary64 values, modelled exactly: a value is sign * m * 2^e with the   *)
(* integer m kept as a sequence of 15-bit limbs, and every arithmetic      *)
(* operation rounds its exact result to 53 significant bits, ties to even. *)
(*                                                                         *)
(* A Python function is a TLA+ function where its arguments are values of  *)
(* a known type: a call evaluates its arguments before the body, as the    *)
(* program does.                                                           *)
(***************************************************************************)
EXTENDS Integers, Sequences, FiniteSets, Bags, TLC

(***************************************************************************)
(* Natural numbers of arbitrary size: little-endian limbs in base 2^15,    *)
(* no leading zero limb, zero is the empty sequence.                       *)
(***************************************************************************)
Base == 2 ^ 15

Pow2(k) == 2 ^ k

\* the element of a one-element set.  The({e(x) : x \in {v}}) is e(v) with
\* the value v computed once and named x, as a local variable is
The(S) == CHOOSE x \in S : TRUE

\* the sum of the values of a function to the naturals
Sum(f) == BagCardinality([x \in {y \in DOMAIN f : f[y] > 0} |-> f[x]])

\* limbs without their leading zeros
BNorm[a \in Seq(Nat)] ==
  LET nonzero == {i \in 1..Len(a) : a[i] # 0}
  IN  IF nonzero = {} THEN <<>>
      ELSE SubSeq(a, 1, CHOOSE i \in nonzero : \A j \in nonzero : j <= i)

BFromInt[n \in Nat] == IF n = 0 THEN <<>> ELSE <<n % Base>> \o BFromInt[n \div Base]

\* for a < 2^30
BToInt[a \in Seq(Nat)] == Sum([i \in 1..Len(a) |-> a[i] * Base ^ (i - 1)])

BLimb(a, i) == IF i \in 1..Len(a) THEN a[i] ELSE 0

\* a + b: limb sums, then the carries, which run through limbs of Base - 1
BAdd[a \in Seq(Nat), b \in Seq(Nat)] ==
  LET n    == IF Len(a) < Len(b) THEN Len(b) + 1 ELSE Len(a) + 1
      s    == [i \in 1..n |-> BLimb(a, i) + BLimb(b, i)]
      c    == [i \in 1..n |->
                 IF \E j \in 1..(i - 1) :
                      s[j] >= Base /\ \A k \in (j + 1)..(i - 1) : s[k] = Base - 1
                 THEN 1 ELSE 0]
  IN  BNorm[[i \in 1..n |-> (s[i] + c[i]) % Base]]

\* a - b for a >= b: limb differences, then the borrows, which run through
\* limbs of zero
BSub[a \in Seq(Nat), b \in Seq(Nat)] ==
  LET d == [i \in 1..Len(a) |-> a[i] - BLimb(b, i)]
      w == [i \in 1..Len(a) |->
              IF \E j \in 1..(i - 1) :
                   d[j] < 0 /\ \A k \in (j + 1)..(i - 1) : d[k] = 0
              THEN 1 ELSE 0]
  IN  BNorm[[i \in 1..Len(a) |-> (d[i] - w[i] + Base) % Base]]

BCmp[a \in Seq(Nat), b \in Seq(Nat)] ==
  LET diff == {i \in 1..Len(a) : a[i] # BLimb(b, i)}
      top  == CHOOSE i \in diff : \A j \in diff : j <= i
  IN  IF Len(a) < Len(b) THEN -1
      ELSE IF Len(a) > Len(b) THEN 1
      ELSE IF diff = {} THEN 0
      ELSE IF a[top] < b[top] THEN -1 ELSE 1

BShlLimbs[a \in Seq(Nat), n \in Nat] == IF a = <<>> THEN <<>> ELSE [i \in 1..n |-> 0] \o a

\* the number with the limb sums col[i] < 2^30, some of them above Base
BCarry[col \in Seq(Nat)] ==
  BAdd[BNorm[[i \in 1..Len(col) |-> col[i] % Base]],
       BNorm[<<0>> \o [i \in 1..Len(col) |-> col[i] \div Base]]]

\* a * k for 0 <= k < Base
BMulSmall[a \in Seq(Nat), k \in Nat] == BCarry[[i \in 1..Len(a) |-> a[i] * k]]

\* a * b for factors of at most four limbs: the low and the high halves of
\* the limb products are summed by column
BMul[a \in Seq(Nat), b \in Seq(Nat)] ==
  LET n == Len(a) + Len(b)
      Pairs(t) == {p \in (1..Len(a)) \X (1..Len(b)) : p[1] + p[2] = t}
      lo == [t \in 1..n |-> Sum([p \in Pairs(t + 1) |-> (a[p[1]] * b[p[2]]) % Base])]
      hi == [t \in 1..n |-> Sum([p \in Pairs(t) |-> (a[p[1]] * b[p[2]]) \div Base])]
  IN  BCarry[[t \in 1..n |-> lo[t] + hi[t]]]

\* Base^t mod d for 0 <= t < 16 and 0 < d < Base, by repeated squaring
PowMod[t \in Nat, d \in Nat] ==
  LET p1 == Base % d
      p2 == (p1 * p1) % d
      p4 == (p2 * p2) % d
      p8 == (p4 * p4) % d
      Bit(k, p) == IF (t \div Pow2(k)) % 2 = 1 THEN p ELSE 1
  IN  (((((Bit(0, p1) * Bit(1, p2)) % d) * Bit(2, p4)) % d) * Bit(3, p8)) % d

\* quotient and remainder of a by d, for 0 < d < Base and a of at most 16
\* limbs: long division, the remainder of the limbs above limb i being
\* their value modulo d
BDivSmall[a \in Seq(Nat), d \in Nat] ==
  LET Above(i) ==
        Sum([j \in (i + 1)..Len(a) |-> ((a[j] % d) * PowMod[j - i - 1, d]) % d]) % d
  IN  [q |-> BNorm[[i \in 1..Len(a) |-> (Above(i) * Base + a[i]) \div d]],
       r |-> Above(0)]

\* n.bit_length() for 0 <= n < 2^30
IntBitLen[n \in Nat] == CHOOSE k \in 0..30 : n < Pow2(k) /\ (k = 0 \/ n >= Pow2(k - 1))

\* bits per limb
LimbBits == IntBitLen[Base] - 1

BBitLen[a \in Seq(Nat)] ==
  IF a = <<>> THEN 0 ELSE LimbBits * (Len(a) - 1) + IntBitLen[a[Len(a)]]

BShl[a \in Seq(Nat), k \in Nat] ==
  BShlLimbs[BMulSmall[a, Pow2(k % LimbBits)], k \div LimbBits]

\* floor(a / 2^k)
BShr[a \in Seq(Nat), k \in Nat] ==
  LET n == k \div LimbBits
      r == k % LimbBits
  IN  BNorm[[i \in 1..(Len(a) - n) |->
               (a[i + n] \div Pow2(r))
               + (BLimb(a, i + n + 1) % Pow2(r)) * Pow2(LimbBits - r)]]

BIsOdd(a) == a # <<>> /\ a[1] % 2 = 1

\* number of trailing zero bits of a > 0
BTrailingZeros[a \in Seq(Nat)] ==
  LET nonzero == {i \in 1..Len(a) : a[i] # 0}
      first   == CHOOSE i \in nonzero : \A j \in nonzero : i <= j
      bit     == CHOOSE z \in 0..(LimbBits - 1) :
                   /\ a[first] % Pow2(z + 1) # 0
                   /\ a[first] % Pow2(z) = 0
  IN  LimbBits * (first - 1) + bit

(***************************************************************************)
(* IEEE-754 binary64 values.  Canonical form: m odd, or m = 0 with e = 0.  *)
(* The exponent range is never approached by any value of the program.    *)
(***************************************************************************)
MantissaBits == 53

Float == [neg : BOOLEAN, m : Seq(Nat), e : Int]

FZero == [neg |-> FALSE, m |-> <<>>, e |-> 0]

FCanon[neg \in BOOLEAN, m \in Seq(Nat), e \in Int] ==
  IF m = <<>> THEN FZero
  ELSE LET z == BTrailingZeros[m]
       IN  [neg |-> neg, m |-> BShr[m, z], e |-> e + z]

\* the binary64 nearest to (+/-) m * 2^e, ties to even
\* m has sh > 0 bits too many, and q is m without its last sh bits: q is
\* raised when the bits dropped are more than half a unit, or half a unit
\* with q odd
FRoundTo[neg \in BOOLEAN, m \in Seq(Nat), e \in Int, sh \in Nat, q \in Seq(Nat)] ==
  FCanon[neg,
         IF \E c \in {BCmp[BSub[m, BShl[q, sh]], BShl[<<1>>, sh - 1]]} :
              c = 1 \/ (c = 0 /\ BIsOdd(q))
         THEN BAdd[q, <<1>>] ELSE q,
         e + sh]

FRoundBy[neg \in BOOLEAN, m \in Seq(Nat), e \in Int, sh \in Int] ==
  IF sh <= 0 THEN FCanon[neg, m, e] ELSE FRoundTo[neg, m, e, sh, BShr[m, sh]]

FRound[neg \in BOOLEAN, m \in Seq(Nat), e \in Int] ==
  FRoundBy[neg, m, e, BBitLen[m] - MantissaBits]

\* float(n) for an int n
FFromInt[n \in Int] ==
  IF n < 0 THEN FCanon[TRUE, BFromInt[-n], 0] ELSE FCanon[FALSE, BFromInt[n], 0]

FNeg[x \in Float] == IF x.m = <<>> THEN x ELSE [x EXCEPT !.neg = ~x.neg]

FMul[x \in Float, y \in Float] ==
  IF x.m = <<>> \/ y.m = <<>> THEN FZero
  ELSE FRound[x.neg # y.neg, BMul[x.m, y.m], x.e + y.e]

\* the sum of (+/-) mx * 2^e and (+/-) my * 2^e, c comparing mx with my
FAddAligned[xneg \in BOOLEAN, mx \in Seq(Nat), yneg \in BOOLEAN, my \in Seq(Nat), e \in Int, c \in {-1, 0, 1}] ==
  FRound[IF xneg = yneg \/ c = 1 THEN xneg ELSE yneg,
         IF xneg = yneg THEN BAdd[mx, my]
         ELSE IF c = 0 THEN <<>>
         ELSE BSub[IF c = 1 THEN mx ELSE my, IF c = 1 THEN my ELSE mx],
         e]

FAddAt[x \in Float, y \in Float, e \in Int] ==
  The({FAddAligned[x.neg, mx, y.neg, my, e, BCmp[mx, my]] :
         mx \in {BShl[x.m, x.e - e]}, my \in {BShl[y.m, y.e - e]}})

FAdd[x \in Float, y \in Float] ==
  IF x.m = <<>> THEN y
  ELSE IF y.m = <<>> THEN x
  ELSE FAddAt[x, y, IF x.e < y.e THEN x.e ELSE y.e]

FSub[x \in Float, y \in Float] == FAdd[x, FNeg[y]]

\* x / y, for a divisor whose odd mantissa is below 2^15 (every divisor of
\* the program is an int of that size)
\* the quotient of x by (+/-) d * 2^y.e: k more bits of x.m are divided by
\* d, and a last bit tells whether the division left a remainder
FDivBits[x \in Float, y \in Float, d \in Nat, k \in Nat] ==
  The({FRound[x.neg # y.neg,
              BAdd[BMulSmall[dv.q, 2], IF dv.r = 0 THEN <<>> ELSE <<1>>],
              x.e - y.e - k - 1] :
         dv \in {BDivSmall[BShl[x.m, k], d]}})

FDivBy[x \in Float, y \in Float, d \in Nat] ==
  FDivBits[x, y, d, MantissaBits + 3 + IntBitLen[d]]

FDiv[x \in Float, y \in Float] ==
  IF x.m = <<>> THEN FZero ELSE FDivBy[x, y, BToInt[y.m]]

\* -1, 0 or 1 as |x| <, =, > |y|, for x and y other than zero
FCmpAbs[x \in Float, y \in Float] ==
  LET e == IF x.e < y.e THEN x.e ELSE y.e
  IN  BCmp[BShl[x.m, x.e - e], BShl[y.m, y.e - e]]

\* 1 for a positive x, -1 for a negative x, 0 for zero
FSign[x \in Float] == IF x.m = <<>> THEN 0 ELSE IF x.neg THEN -1 ELSE 1

\* -1, 0 or 1 as x <, =, > y
FCmpSigned[x \in Float, y \in Float, sx \in {-1, 0, 1}, sy \in {-1, 0, 1}] ==
  IF sx < sy THEN -1
  ELSE IF sx > sy THEN 1
  ELSE IF sx = 0 THEN 0
  ELSE sx * FCmpAbs[x, y]

FCmp[x \in Float, y \in Float] == FCmpSigned[x, y, FSign[x], FSign[y]]

FLt[x \in Float, y \in Float] == FCmp[x, y] = -1
FLe[x \in Float, y \in Float] == FCmp[x, y] # 1
FGe[x \in Float, y \in Float] == FCmp[x, y] # -1
FGt[x \in Float, y \in Float] == FCmp[x, y] = 1

FMin[x \in Float, y \in Float] == IF FLt[y, x] THEN y ELSE x

\* int(x): truncation toward zero
FTrunc[x \in Float] ==
  IF x.m = <<>> THEN 0
  ELSE (IF x.neg THEN -1 ELSE 1)
       * BToInt[IF x.e >= 0 THEN BShl[x.m, x.e] ELSE BShr[x.m, -x.e]]

\* the float literal num/den written in decimal (the parser rounds the
\* decimal to the nearest binary64, as the correctly rounded quotient does)
FLit[num \in Int, den \in Int] == FDiv[FFromInt[num], FFromInt[den]]

\* the binary64 values of the decimal literals of the program
F1_0 == [neg |-> FALSE, m |-> <<1>>, e |-> 0]
F0_05 == [neg |-> FALSE, m |-> <<19661,6553,13107,102>>, e |-> -56]
F0_1 == [neg |-> FALSE, m |-> <<19661,6553,13107,102>>, e |-> -55]
F0_15 == [neg |-> FALSE, m |-> <<13107,26214,19660,153>>, e |-> -55]
F0_2 == [neg |-> FALSE, m |-> <<19661,6553,13107,102>>, e |-> -54]
F0_25 == [neg |-> FALSE, m |-> <<1>>, e |-> -2]
F0_3 == [neg |-> FALSE, m |-> <<13107,26214,19660,153>>, e |-> -54]
F0_35 == [neg |-> FALSE, m |-> <<13107,26214,19660,89>>, e |-> -53]
F0_4 == [neg |-> FALSE, m |-> <<19661,6553,13107,102>>, e |-> -53]
F0_5 == [neg |-> FALSE, m |-> <<1>>, e |-> -1]
F0_6 == [neg |-> FALSE, m |-> <<13107,26214,19660,153>>, e |-> -53]
F0_7 == [neg |-> FALSE, m |-> <<13107,26214,19660,89>>, e |-> -52]
F0_8 == [neg |-> FALSE, m |-> <<19661,6553,13107,102>>, e |-> -52]
F0_9 == [neg |-> FALSE, m |-> <<19661,6553,13107,230>>, e |-> -53]
F0_95 == [neg |-> FALSE, m |-> <<13107,26214,19660,121>>, e |-> -52]



(***************************************************************************)
(* Text.  A str is a sequence of characters; the characters of the model   *)
(* are the ASCII characters below, listed in code-point order.             *)
(***************************************************************************)
DigitChars == <<"0", "1", "2", "3", "4", "5", "6", "7", "8", "9">>
UpperLetters == <<"A", "B", "C", "D", "E", "F", "G", "H", "I", "J", "K", "L", "M",
                  "N", "O", "P", "Q", "R", "S", "T", "U", "V", "W", "X", "Y", "Z">>
LowerLetters == <<"a", "b", "c", "d", "e", "f", "g", "h", "i", "j", "k", "l", "m",
                  "n", "o", "p", "q", "r", "s", "t", "u", "v", "w", "x", "y", "z">>

Ascii == <<"\t", " ", "!", "#", "$", "%", "&", "(", ")", "*", "+", ",",
           "-", ".", "/">>
         \o DigitChars \o <<":", ";", "<", "=", ">", "?", "@">>
         \o UpperLetters \o <<"[", "]", "^", "_">>
         \o LowerLetters \o <<"{", "|", "}", "~">>

IndexIn(seq, x) == CHOOSE i \in 1..Len(seq) : seq[i] = x

Chars == {Ascii[i] : i \in 1..Len(Ascii)}
Upper == {UpperLetters[i] : i \in 1..26}
Lower == {LowerLetters[i] : i \in 1..26}
Digits == {DigitChars[i] : i \in 1..10}
Whitespace == {" ", "\t"}

Str == Seq(Chars)

\* code-point order of the characters
Ord == [c \in Chars |-> IndexIn(Ascii, c)]

LowerOf == [c \in Chars |->
             IF c \in Upper THEN LowerLetters[IndexIn(UpperLetters, c)] ELSE c]
UpperOf == [c \in Chars |->
             IF c \in Lower THEN UpperLetters[IndexIn(LowerLetters, c)] ELSE c]

\* str.lower[]
lower[s \in Str] == [i \in 1..Len(s) |-> LowerOf[s[i]]]

lstrip[s \in Str] ==
  IF s # <<>> /\ s[1] \in Whitespace THEN lstrip[Tail(s)] ELSE s

rstrip[s \in Str] ==
  IF s # <<>> /\ s[Len(s)] \in Whitespace
  THEN rstrip[SubSeq(s, 1, Len(s) - 1)] ELSE s

\* str.strip[]
strip[s \in Str] == rstrip[lstrip[s]]

\* the character class \w
IsWord(c) == c \in Upper \/ c \in Lower \/ c \in Digits \/ c = "_"

KeepInSkill(c) == IsWord(c) \/ c \in Whitespace \/ c \in {"+", "#", "."}

\* re.sub of the characters outside [\w\s+#.] by the empty string
RemovePunctuation[s \in Str] == SelectSeq(s, KeepInSkill)

\* re.sub of each run of whitespace by one blank
CollapseWhitespace[s \in Str] ==
  LET marked == [i \in 1..Len(s) |->
                   IF s[i] \notin Whitespace THEN s[i]
                   ELSE IF i = 1 \/ s[i - 1] \notin Whitespace THEN " "
                   ELSE ""]
      Kept(c) == c # ""
  IN  SelectSeq(marked, Kept)

\* the first whitespace-free word of s, for s starting with a non-blank
WordPrefix[s \in Str] ==
  LET blanks == {i \in 1..Len(s) : s[i] \in Whitespace}
  IN  IF blanks = {} THEN s
      ELSE SubSeq(s, 1, (CHOOSE i \in blanks : \A j \in blanks : i <= j) - 1)

\* set(s.split())
SplitSet[s \in Str] ==
  LET t == lstrip[s]
  IN  IF t = <<>> THEN {}
      ELSE LET w == WordPrefix[t]
           IN  {w} \cup SplitSet[SubSeq(t, Len(w) + 1, Len(t))]

\* str.title[]: a letter following a letter is lowered, any other raised
title[s \in Str] ==
  [i \in 1..Len(s) |->
     IF i > 1 /\ (s[i - 1] \in Upper \/ s[i - 1] \in Lower)
     THEN LowerOf[s[i]] ELSE UpperOf[s[i]]]

\* a < b for str: lexicographic by code point
StrLess[a \in Str, b \in Str] ==
  LET n    == IF Len(a) < Len(b) THEN Len(a) ELSE Len(b)
      diff == {i \in 1..n : a[i] # b[i]}
      d    == CHOOSE i \in diff : \A j \in diff : i <= j
  IN  IF diff = {} THEN Len(a) < Len(b) ELSE Ord[a[d]] < Ord[b[d]]

\* sorted(S) for a set S of str
SortedStrs(S) ==
  [k \in 1..Cardinality(S) |->
     CHOOSE x \in S : Cardinality({y \in S : StrLess[y, x]}) = k - 1]

\* sep.join(items)
RECURSIVE Join(_, _)
Join(items, sep) ==
  IF items = <<>> THEN <<>>
  ELSE IF Len(items) = 1 THEN items[1]
  ELSE items[1] \o sep \o Join(Tail(items), sep)

\* needle in haystack
Contains(haystack, needle) ==
  \E i \in 1..(Len(haystack) - Len(needle) + 1) :
     SubSeq(haystack, i, i + Len(needle) - 1) = needle

\* seq[:n]
Take(seq, n) == SubSeq(seq, 1, IF Len(seq) < n THEN Len(seq) ELSE n)

Range(seq) == {seq[i] : i \in 1..Len(seq)}

(***************************************************************************)
(* difflib.SequenceMatcher(None, a, b).ratio[].  No element is junk and    *)
(* the autojunk heuristic needs 200 elements, so the longest matching      *)
(* block is the longest common run, earliest in a, then earliest in b.     *)
(***************************************************************************)
\* length of the common run of a[i..ahi-1] and b[j..bhi-1] from their starts
RunLen[a \in Str, b \in Str, i \in Nat, j \in Nat, ahi \in Nat, bhi \in Nat] ==
  LET n    == IF ahi - i < bhi - j THEN ahi - i ELSE bhi - j
      diff == {k \in 0..(n - 1) : a[i + k] # b[j + k]}
  IN  IF diff = {} THEN n ELSE CHOOSE k \in diff : \A m \in diff : k <= m

\* windows are a[alo..ahi-1] and b[blo..bhi-1]; the result is <<i, j, size>>
find_longest_match[a \in Str, b \in Str, alo \in Nat, ahi \in Nat, blo \in Nat, bhi \in Nat] ==
  LET Starts == {p \in (alo..(ahi - 1)) \X (blo..(bhi - 1)) : a[p[1]] = b[p[2]]}
      sized  == [p \in Starts |-> RunLen[a, b, p[1], p[2], ahi, bhi]]
      sizes  == {sized[p] : p \in Starts}
      bestsize == CHOOSE k \in sizes : \A n \in sizes : n <= k
      rows   == {p[1] : p \in {q \in Starts : sized[q] = bestsize}}
      besti  == CHOOSE i \in rows : \A n \in rows : i <= n
      cols   == {p[2] : p \in {q \in Starts : sized[q] = bestsize /\ q[1] = besti}}
      bestj  == CHOOSE j \in cols : \A n \in cols : j <= n
  IN  IF Starts = {} THEN <<alo, blo, 0>> ELSE <<besti, bestj, bestsize>>

\* total size of the matching blocks of the two windows
MatchedSize[a \in Str, b \in Str, alo \in Nat, ahi \in Nat, blo \in Nat, bhi \in Nat] ==
  The({IF m[3] = 0 THEN 0
       ELSE m[3]
            + MatchedSize[a, b, alo, m[1], blo, m[2]]
            + MatchedSize[a, b, m[1] + m[3], ahi, m[2] + m[3], bhi] :
       m \in {find_longest_match[a, b, alo, ahi, blo, bhi]}})

ratio[a \in Str, b \in Str] ==
  IF Len(a) + Len(b) = 0 THEN F1_0
  ELSE FDiv[FFromInt[2 * MatchedSize[a, b, 1, Len(a) + 1, 1, Len(b) + 1]],
            FFromInt[Len(a) + Len(b)]]


(***************************************************************************)
(* EnhancedSkillTaxonomy: the alias table in declaration order (aliases of  *)
(* one skill in source order), and the skill categories.                   *)
(***************************************************************************)
_skill_aliases == <<
  [skill |-> <<"p", "y", "t", "h", "o", "n">>,
   aliases |-> {<<"p", "y", "t", "h", "o", "n">>, <<"p", "y">>, <<"p", "y", "t", "h", "o", "n", "3">>, <<"c", "p", "y", "t", "h", "o", "n">>, <<"p", "y", "t", "h", "o", "n", "2">>}],
  [skill |-> <<"j", "a", "v", "a", "s", "c", "r", "i", "p", "t">>,
   aliases |-> {<<"j", "a", "v", "a", "s", "c", "r", "i", "p", "t">>, <<"j", "s">>, <<"e", "c", "m", "a", "s", "c", "r", "i", "p", "t">>, <<"n", "o", "d", "e", ".", "j", "s">>, <<"n", "o", "d", "e", "j", "s">>, <<"n", "o", "d", "e">>}],
  [skill |-> <<"t", "y", "p", "e", "s", "c", "r", "i", "p", "t">>,
   aliases |-> {<<"t", "y", "p", "e", "s", "c", "r", "i", "p", "t">>, <<"t", "s">>}],
  [skill |-> <<"j", "a", "v", "a">>,
   aliases |-> {<<"j", "a", "v", "a">>, <<"o", "p", "e", "n", "j", "d", "k">>, <<"o", "r", "a", "c", "l", "e", " ", "j", "a", "v", "a">>}],
  [skill |-> <<"c", "#">>,
   aliases |-> {<<"c", "#">>, <<"c", "s", "h", "a", "r", "p">>, <<"c", " ", "s", "h", "a", "r", "p">>, <<".", "n", "e", "t">>, <<"d", "o", "t", "n", "e", "t">>}],
  [skill |-> <<"c", "+", "+">>,
   aliases |-> {<<"c", "+", "+">>, <<"c", "p", "p">>, <<"c", "p", "l", "u", "s", "p", "l", "u", "s">>, <<"c", " ", "p", "l", "u", "s", " ", "p", "l", "u", "s">>}],
  [skill |-> <<"g", "o">>,
   aliases |-> {<<"g", "o">>, <<"g", "o", "l", "a", "n", "g">>, <<"g", "o", " ", "l", "a", "n", "g">>}],
  [skill |-> <<"r", "u", "s", "t">>,
   aliases |-> {<<"r", "u", "s", "t">>, <<"r", "u", "s", "t", "-", "l", "a", "n", "g">>}],
  [skill |-> <<"p", "h", "p">>,
   aliases |-> {<<"p", "h", "p">>, <<"p", "h", "p", "7">>, <<"p", "h", "p", "8">>}],
  [skill |-> <<"r", "u", "b", "y">>,
   aliases |-> {<<"r", "u", "b", "y">>, <<"r", "u", "b", "y", " ", "o", "n", " ", "r", "a", "i", "l", "s">>, <<"r", "a", "i", "l", "s">>}],
  [skill |-> <<"s", "w", "i", "f", "t">>,
   aliases |-> {<<"s", "w", "i", "f", "t">>, <<"i", "o", "s", " ", "s", "w", "i", "f", "t">>}],
  [skill |-> <<"k", "o", "t", "l", "i", "n">>,
   aliases |-> {<<"k", "o", "t", "l", "i", "n">>, <<"a", "n", "d", "r", "o", "i", "d", " ", "k", "o", "t", "l", "i", "n">>}],
  [skill |-> <<"s", "c", "a", "l", "a">>,
   aliases |-> {<<"s", "c", "a", "l", "a">>, <<"s", "c", "a", "l", "a", ".", "j", "s">>}],
  [skill |-> <<"r">>,
   aliases |-> {<<"r">>, <<"r", " ", "p", "r", "o", "g", "r", "a", "m", "m", "i", "n", "g">>, <<"r", "-", "l", "a", "n", "g">>}],
  [skill |-> <<"p", "o", "s", "t", "g", "r", "e", "s", "q", "l">>,
   aliases |-> {<<"p", "o", "s", "t", "g", "r", "e", "s", "q", "l">>, <<"p", "o", "s", "t", "g", "r", "e", "s">>, <<"p", "s", "q", "l">>, <<"p", "g">>}],
  [skill |-> <<"m", "y", "s", "q", "l">>,
   aliases |-> {<<"m", "y", "s", "q", "l">>, <<"m", "a", "r", "i", "a", "d", "b">>}],
  [skill |-> <<"m", "o", "n", "g", "o", "d", "b">>,
   aliases |-> {<<"m", "o", "n", "g", "o", "d", "b">>, <<"m", "o", "n", "g", "o">>, <<"m", "o", "n", "g", "o", " ", "d", "b">>}],
  [skill |-> <<"r", "e", "d", "i", "s">>,
   aliases |-> {<<"r", "e", "d", "i", "s">>, <<"r", "e", "d", "i", "s", " ", "c", "a", "c", "h", "e">>}],
  [skill |-> <<"s", "q", "l", "i", "t", "e">>,
   aliases |-> {<<"s", "q", "l", "i", "t", "e">>, <<"s", "q", "l", "i", "t", "e", "3">>}],
  [skill |-> <<"o", "r", "a", "c", "l", "e">>,
   aliases |-> {<<"o", "r", "a", "c", "l", "e">>, <<"o", "r", "a", "c", "l", "e", " ", "d", "b">>, <<"o", "r", "a", "c", "l", "e", " ", "d", "a", "t", "a", "b", "a", "s", "e">>}],
  [skill |-> <<"c", "a", "s", "s", "a", "n", "d", "r", "a">>,
   aliases |-> {<<"c", "a", "s", "s", "a", "n", "d", "r", "a">>, <<"a", "p", "a", "c", "h", "e", " ", "c", "a", "s", "s", "a", "n", "d", "r", "a">>}],
  [skill |-> <<"e", "l", "a", "s", "t", "i", "c", "s", "e", "a", "r", "c", "h">>,
   aliases |-> {<<"e", "l", "a", "s", "t", "i", "c", "s", "e", "a", "r", "c", "h">>, <<"e", "l", "a", "s", "t", "i", "c", " ", "s", "e", "a", "r", "c", "h">>, <<"e", "s">>}],
  [skill |-> <<"a", "w", "s">>,
   aliases |-> {<<"a", "w", "s">>, <<"a", "m", "a", "z", "o", "n", " ", "w", "e", "b", " ", "s", "e", "r", "v", "i", "c", "e", "s">>, <<"a", "m", "a", "z", "o", "n", " ", "a", "w", "s">>}],
  [skill |-> <<"a", "z", "u", "r", "e">>,
   aliases |-> {<<"a", "z", "u", "r", "e">>, <<"m", "i", "c", "r", "o", "s", "o", "f", "t", " ", "a", "z", "u", "r", "e">>, <<"m", "s", " ", "a", "z", "u", "r", "e">>}],
  [skill |-> <<"g", "c", "p">>,
   aliases |-> {<<"g", "c", "p">>, <<"g", "o", "o", "g", "l", "e", " ", "c", "l", "o", "u", "d">>, <<"g", "o", "o", "g", "l", "e", " ", "c", "l", "o", "u", "d", " ", "p", "l", "a", "t", "f", "o", "r", "m">>}],
  [skill |-> <<"d", "o", "c", "k", "e", "r">>,
   aliases |-> {<<"d", "o", "c", "k", "e", "r">>, <<"c", "o", "n", "t", "a", "i", "n", "e", "r", "i", "z", "a", "t", "i", "o", "n">>, <<"c", "o", "n", "t", "a", "i", "n", "e", "r", "s">>}],
  [skill |-> <<"k", "u", "b", "e", "r", "n", "e", "t", "e", "s">>,
   aliases |-> {<<"k", "u", "b", "e", "r", "n", "e", "t", "e", "s">>, <<"k", "8", "s">>, <<"k", "u", "b", "e">>}],
  [skill |-> <<"t", "e", "r", "r", "a", "f", "o", "r", "m">>,
   aliases |-> {<<"t", "e", "r", "r", "a", "f", "o", "r", "m">>, <<"t", "f">>, <<"h", "c", "l">>}],
  [skill |-> <<"a", "n", "s", "i", "b", "l", "e">>,
   aliases |-> {<<"a", "n", "s", "i", "b", "l", "e">>, <<"a", "n", "s", "i", "b", "l", "e", " ", "p", "l", "a", "y", "b", "o", "o", "k">>}],
  [skill |-> <<"j", "e", "n", "k", "i", "n", "s">>,
   aliases |-> {<<"j", "e", "n", "k", "i", "n", "s">>, <<"j", "e", "n", "k", "i", "n", "s", " ", "c", "i", "/", "c", "d">>, <<"j", "e", "n", "k", "i", "n", "s", " ", "p", "i", "p", "e", "l", "i", "n", "e">>}],
  [skill |-> <<"g", "i", "t">>,
   aliases |-> {<<"g", "i", "t">>, <<"v", "e", "r", "s", "i", "o", "n", " ", "c", "o", "n", "t", "r", "o", "l">>, <<"g", "i", "t", " ", "s", "c", "m">>}],
  [skill |-> <<"g", "i", "t", "h", "u", "b">>,
   aliases |-> {<<"g", "i", "t", "h", "u", "b">>, <<"g", "i", "t", "h", "u", "b", " ", "a", "c", "t", "i", "o", "n", "s">>}],
  [skill |-> <<"g", "i", "t", "l", "a", "b">>,
   aliases |-> {<<"g", "i", "t", "l", "a", "b">>, <<"g", "i", "t", "l", "a", "b", " ", "c", "i">>}],
  [skill |-> <<"c", "i", "r", "c", "l", "e", "c", "i">>,
   aliases |-> {<<"c", "i", "r", "c", "l", "e", "c", "i">>, <<"c", "i", "r", "c", "l", "e", " ", "c", "i">>}],
  [skill |-> <<"a", "p", "a", "c", "h", "e", " ", "s", "p", "a", "r", "k">>,
   aliases |-> {<<"s", "p", "a", "r", "k">>, <<"a", "p", "a", "c", "h", "e", " ", "s", "p", "a", "r", "k">>, <<"p", "y", "s", "p", "a", "r", "k">>}],
  [skill |-> <<"h", "a", "d", "o", "o", "p">>,
   aliases |-> {<<"h", "a", "d", "o", "o", "p">>, <<"a", "p", "a", "c", "h", "e", " ", "h", "a", "d", "o", "o", "p">>, <<"h", "d", "f", "s">>}],
  [skill |-> <<"k", "a", "f", "k", "a">>,
   aliases |-> {<<"k", "a", "f", "k", "a">>, <<"a", "p", "a", "c", "h", "e", " ", "k", "a", "f", "k", "a">>}],
  [skill |-> <<"a", "i", "r", "f", "l", "o", "w">>,
   aliases |-> {<<"a", "i", "r", "f", "l", "o", "w">>, <<"a", "p", "a", "c", "h", "e", " ", "a", "i", "r", "f", "l", "o", "w">>}],
  [skill |-> <<"t", "a", "b", "l", "e", "a", "u">>,
   aliases |-> {<<"t", "a", "b", "l", "e", "a", "u">>, <<"t", "a", "b", "l", "e", "a", "u", " ", "d", "e", "s", "k", "t", "o", "p">>, <<"t", "a", "b", "l", "e", "a", "u", " ", "s", "e", "r", "v", "e", "r">>}],
  [skill |-> <<"p", "o", "w", "e", "r", " ", "b", "i">>,
   aliases |-> {<<"p", "o", "w", "e", "r", " ", "b", "i">>, <<"p", "o", "w", "e", "r", "b", "i">>, <<"m", "i", "c", "r", "o", "s", "o", "f", "t", " ", "p", "o", "w", "e", "r", " ", "b", "i">>}],
  [skill |-> <<"e", "x", "c", "e", "l">>,
   aliases |-> {<<"e", "x", "c", "e", "l">>, <<"m", "i", "c", "r", "o", "s", "o", "f", "t", " ", "e", "x", "c", "e", "l">>, <<"m", "s", " ", "e", "x", "c", "e", "l">>}],
  [skill |-> <<"r", "e", "a", "c", "t">>,
   aliases |-> {<<"r", "e", "a", "c", "t">>, <<"r", "e", "a", "c", "t", "j", "s">>, <<"r", "e", "a", "c", "t", ".", "j", "s">>}],
  [skill |-> <<"a", "n", "g", "u", "l", "a", "r">>,
   aliases |-> {<<"a", "n", "g", "u", "l", "a", "r">>, <<"a", "n", "g", "u", "l", "a", "r", "j", "s">>, <<"a", "n", "g", "u", "l", "a", "r", ".", "j", "s">>}],
  [skill |-> <<"v", "u", "e">>,
   aliases |-> {<<"v", "u", "e">>, <<"v", "u", "e", "j", "s">>, <<"v", "u", "e", ".", "j", "s">>}],
  [skill |-> <<"d", "j", "a", "n", "g", "o">>,
   aliases |-> {<<"d", "j", "a", "n", "g", "o">>, <<"d", "j", "a", "n", "g", "o", " ", "r", "e", "s", "t">>, <<"d", "r", "f">>}],
  [skill |-> <<"f", "l", "a", "s", "k">>,
   aliases |-> {<<"f", "l", "a", "s", "k">>, <<"f", "l", "a", "s", "k", " ", "a", "p", "i">>}],
  [skill |-> <<"f", "a", "s", "t", "a", "p", "i">>,
   aliases |-> {<<"f", "a", "s", "t", "a", "p", "i">>, <<"f", "a", "s", "t", " ", "a", "p", "i">>}],
  [skill |-> <<"e", "x", "p", "r", "e", "s", "s">>,
   aliases |-> {<<"e", "x", "p", "r", "e", "s", "s">>, <<"e", "x", "p", "r", "e", "s", "s", "j", "s">>, <<"e", "x", "p", "r", "e", "s", "s", ".", "j", "s">>}],
  [skill |-> <<"s", "p", "r", "i", "n", "g">>,
   aliases |-> {<<"s", "p", "r", "i", "n", "g">>, <<"s", "p", "r", "i", "n", "g", " ", "b", "o", "o", "t">>, <<"s", "p", "r", "i", "n", "g", " ", "f", "r", "a", "m", "e", "w", "o", "r", "k">>}],
  [skill |-> <<"l", "i", "n", "u", "x">>,
   aliases |-> {<<"l", "i", "n", "u", "x">>, <<"u", "b", "u", "n", "t", "u">>, <<"c", "e", "n", "t", "o", "s">>, <<"r", "h", "e", "l">>, <<"d", "e", "b", "i", "a", "n">>}],
  [skill |-> <<"w", "i", "n", "d", "o", "w", "s">>,
   aliases |-> {<<"w", "i", "n", "d", "o", "w", "s">>, <<"w", "i", "n", "d", "o", "w", "s", " ", "s", "e", "r", "v", "e", "r">>, <<"m", "i", "c", "r", "o", "s", "o", "f", "t", " ", "w", "i", "n", "d", "o", "w", "s">>}],
  [skill |-> <<"m", "a", "c", "o", "s">>,
   aliases |-> {<<"m", "a", "c", "o", "s">>, <<"m", "a", "c", " ", "o", "s">>, <<"o", "s", "x">>, <<"o", "s", " ", "x">>}],
  [skill |-> <<"p", "y", "t", "e", "s", "t">>,
   aliases |-> {<<"p", "y", "t", "e", "s", "t">>, <<"p", "y", "t", "h", "o", "n", " ", "t", "e", "s", "t", "i", "n", "g">>}],
  [skill |-> <<"j", "u", "n", "i", "t">>,
   aliases |-> {<<"j", "u", "n", "i", "t">>, <<"j", "a", "v", "a", " ", "t", "e", "s", "t", "i", "n", "g">>}],
  [skill |-> <<"s", "e", "l", "e", "n", "i", "u", "m">>,
   aliases |-> {<<"s", "e", "l", "e", "n", "i", "u", "m">>, <<"s", "e", "l", "e", "n", "i", "u", "m", " ", "w", "e", "b", "d", "r", "i", "v", "e", "r">>}],
  [skill |-> <<"c", "y", "p", "r", "e", "s", "s">>,
   aliases |-> {<<"c", "y", "p", "r", "e", "s", "s">>, <<"c", "y", "p", "r", "e", "s", "s", ".", "i", "o">>}],
  [skill |-> <<"t", "e", "n", "s", "o", "r", "f", "l", "o", "w">>,
   aliases |-> {<<"t", "e", "n", "s", "o", "r", "f", "l", "o", "w">>, <<"t", "f">>, <<"k", "e", "r", "a", "s">>}],
  [skill |-> <<"p", "y", "t", "o", "r", "c", "h">>,
   aliases |-> {<<"p", "y", "t", "o", "r", "c", "h">>, <<"t", "o", "r", "c", "h">>}],
  [skill |-> <<"s", "c", "i", "k", "i", "t", "-", "l", "e", "a", "r", "n">>,
   aliases |-> {<<"s", "c", "i", "k", "i", "t", "-", "l", "e", "a", "r", "n">>, <<"s", "k", "l", "e", "a", "r", "n">>, <<"s", "c", "i", "k", "i", "t", " ", "l", "e", "a", "r", "n">>}],
  [skill |-> <<"p", "a", "n", "d", "a", "s">>,
   aliases |-> {<<"p", "a", "n", "d", "a", "s">>, <<"p", "y", "t", "h", "o", "n", " ", "p", "a", "n", "d", "a", "s">>}],
  [skill |-> <<"n", "u", "m", "p", "y">>,
   aliases |-> {<<"n", "u", "m", "p", "y">>, <<"p", "y", "t", "h", "o", "n", " ", "n", "u", "m", "p", "y">>}]
>>

_skill_categories == <<
  [category |-> "programming",
   skills |-> {<<"p", "y", "t", "h", "o", "n">>, <<"j", "a", "v", "a", "s", "c", "r", "i", "p", "t">>, <<"t", "y", "p", "e", "s", "c", "r", "i", "p", "t">>, <<"j", "a", "v", "a">>, <<"c", "#">>, <<"c", "+", "+">>, <<"g", "o">>, <<"r", "u", "s", "t">>, <<"p", "h", "p">>, <<"r", "u", "b", "y">>, <<"s", "w", "i", "f", "t">>, <<"k", "o", "t", "l", "i", "n">>, <<"s", "c", "a", "l", "a">>, <<"r">>}],
  [category |-> "databases",
   skills |-> {<<"p", "o", "s", "t", "g", "r", "e", "s", "q", "l">>, <<"m", "y", "s", "q", "l">>, <<"m", "o", "n", "g", "o", "d", "b">>, <<"r", "e", "d", "i", "s">>, <<"s", "q", "l", "i", "t", "e">>, <<"o", "r", "a", "c", "l", "e">>, <<"c", "a", "s", "s", "a", "n", "d", "r", "a">>, <<"e", "l", "a", "s", "t", "i", "c", "s", "e", "a", "r", "c", "h">>}],
  [category |-> "cloud",
   skills |-> {<<"a", "w", "s">>, <<"a", "z", "u", "r", "e">>, <<"g", "c", "p">>}],
  [category |-> "devops",
   skills |-> {<<"d", "o", "c", "k", "e", "r">>, <<"k", "u", "b", "e", "r", "n", "e", "t", "e", "s">>, <<"t", "e", "r", "r", "a", "f", "o", "r", "m">>, <<"a", "n", "s", "i", "b", "l", "e">>, <<"j", "e", "n", "k", "i", "n", "s">>, <<"g", "i", "t">>, <<"g", "i", "t", "h", "u", "b">>, <<"g", "i", "t", "l", "a", "b">>, <<"c", "i", "r", "c", "l", "e", "c", "i">>}],
  [category |-> "data_analytics",
   skills |-> {<<"a", "p", "a", "c", "h", "e", " ", "s", "p", "a", "r", "k">>, <<"h", "a", "d", "o", "o", "p">>, <<"k", "a", "f", "k", "a">>, <<"a", "i", "r", "f", "l", "o", "w">>, <<"t", "a", "b", "l", "e", "a", "u">>, <<"p", "o", "w", "e", "r", " ", "b", "i">>, <<"e", "x", "c", "e", "l">>}],
  [category |-> "web_frameworks",
   skills |-> {<<"r", "e", "a", "c", "t">>, <<"a", "n", "g", "u", "l", "a", "r">>, <<"v", "u", "e">>, <<"d", "j", "a", "n", "g", "o">>, <<"f", "l", "a", "s", "k">>, <<"f", "a", "s", "t", "a", "p", "i">>, <<"e", "x", "p", "r", "e", "s", "s">>, <<"s", "p", "r", "i", "n", "g">>}],
  [category |-> "operating_systems",
   skills |-> {<<"l", "i", "n", "u", "x">>, <<"w", "i", "n", "d", "o", "w", "s">>, <<"m", "a", "c", "o", "s">>}],
  [category |-> "testing",
   skills |-> {<<"p", "y", "t", "e", "s", "t">>, <<"j", "u", "n", "i", "t">>, <<"s", "e", "l", "e", "n", "i", "u", "m">>, <<"c", "y", "p", "r", "e", "s", "s">>}],
  [category |-> "machine_learning",
   skills |-> {<<"t", "e", "n", "s", "o", "r", "f", "l", "o", "w">>, <<"p", "y", "t", "o", "r", "c", "h">>, <<"s", "c", "i", "k", "i", "t", "-", "l", "e", "a", "r", "n">>, <<"p", "a", "n", "d", "a", "s">>, <<"n", "u", "m", "p", "y">>}]
>>

_normalized_skills == {_skill_aliases[i].skill : i \in 1..Len(_skill_aliases)}

AllAliases == UNION {_skill_aliases[i].aliases : i \in 1..Len(_skill_aliases)}

\* the reverse lookup built by the constructor: a later skill listing the
\* same alias overwrites the earlier entry
_alias_to_skill ==
  [a \in {lower[x] : x \in AllAliases} |->
     LET owners == {i \in 1..Len(_skill_aliases) :
                      \E x \in _skill_aliases[i].aliases : lower[x] = a}
         last   == CHOOSE i \in owners : \A j \in owners : j <= i
     IN  _skill_aliases[last].skill]

(***************************************************************************)
(* Iteration order of a set of str.  It follows the hash of the strings,   *)
(* which is seeded per process; the model lets a process iterate the       *)
(* canonical skills either in declaration order or in the opposite order.  *)
(***************************************************************************)
HashSeeds == {0, 1}

Reverse(seq) == [i \in 1..Len(seq) |-> seq[Len(seq) + 1 - i]]

\* the elements of a set S of canonical skills, in the order of the process
IterationOrder(seed, S) ==
  LET declared == [i \in 1..Len(_skill_aliases) |-> _skill_aliases[i].skill]
      InS(sk)  == sk \in S
      forward  == SelectSeq(declared, InS)
  IN  IF seed = 0 THEN forward ELSE Reverse(forward)

\* the canonical skill of a cleaned name that is a listed variant, else the
\* cleaned name
Resolve[clean_skill \in Str] ==
  IF clean_skill \in DOMAIN _alias_to_skill
  THEN _alias_to_skill[clean_skill]
  ELSE clean_skill

\* re.sub(r'\s+', ' ', re.sub(r'[^\w\s\+\#\.]', '', skill.lower().strip()))
clean_skill[skill \in Str] ==
  CollapseWhitespace[RemovePunctuation[strip[lower[skill]]]]

normalize_skill[skill \in Str] ==
  IF skill = <<>> THEN <<>> ELSE Resolve[clean_skill[skill]]

SkillMatches ==
  [original : Str, normalized : Str, confidence : Float,
   match_type : {"exact", "alias", "fuzzy", "semantic", "near_exact"}]

SkillMatch(original, normalized, confidence, match_type) ==
  [original |-> original, normalized |-> normalized,
   confidence |-> confidence, match_type |-> match_type]

IsBlank(skill) == strip[skill] = <<>>

\* the first category listing the normalized name
CategoryOf[normalized \in Str] ==
  The({IF hits = {} THEN "other"
       ELSE _skill_categories[CHOOSE i \in hits : \A j \in hits : i <= j].category :
       hits \in {{i \in 1..Len(_skill_categories) :
                    normalized \in _skill_categories[i].skills}}})

get_skill_category[skill \in Str] == CategoryOf[normalize_skill[skill]]

CategorySkills(category) ==
  LET i == CHOOSE k \in 1..Len(_skill_categories) :
             _skill_categories[k].category = category
  IN  _skill_categories[i].skills

RelatedIn(normalized, category, seed) ==
  IF category = "other" THEN <<>>
  ELSE IterationOrder(seed, CategorySkills(category) \ {normalized})

get_related_skills[skill \in Str, seed \in HashSeeds] ==
  The({RelatedIn(normalized, get_skill_category[normalized], seed) :
         normalized \in {normalize_skill[skill]}})

\* the Jaccard similarity of the two sets of words
TokenSimilarity[tokens1 \in SUBSET Str, tokens2 \in SUBSET Str] ==
  IF tokens1 = {} \/ tokens2 = {} THEN FZero
  ELSE FDiv[FFromInt[Cardinality(tokens1 \cap tokens2)],
            FFromInt[Cardinality(tokens1 \cup tokens2)]]

CategoryBonus(cat1, cat2) ==
  IF cat1 = cat2 /\ cat1 # "other" THEN F0_3 ELSE FZero

\* semantic_similarity from the two normalized names on
SimilarityOfNormalized[norm1 \in Str, norm2 \in Str] ==
  IF norm1 = norm2 THEN F1_0
  ELSE FMin[F1_0,
            FAdd[FAdd[FMul[TokenSimilarity[SplitSet[norm1], SplitSet[norm2]], F0_6],
                      FMul[ratio[norm1, norm2], F0_4]],
                 CategoryBonus(get_skill_category[norm1],
                               get_skill_category[norm2])]]

semantic_similarity[skill1 \in Str, skill2 \in Str] ==
  IF skill1 = <<>> \/ skill2 = <<>> THEN FZero
  ELSE SimilarityOfNormalized[normalize_skill[skill1], normalize_skill[skill2]]

\* sorted(matches, key=confidence, reverse=True): stable, so an entry comes
\* after the entries of higher confidence and the earlier ones of the same
SortByConfidence[matches \in Seq(SkillMatches)] ==
  LET Ahead(i) == {j \in 1..Len(matches) :
                     \/ FGt[matches[j].confidence, matches[i].confidence]
                     \/ j < i /\ matches[j].confidence = matches[i].confidence}
      rank == [i \in 1..Len(matches) |-> Cardinality(Ahead(i)) + 1]
  IN  [k \in 1..Len(matches) |->
         matches[CHOOSE i \in 1..Len(matches) : rank[i] = k]]

\* the entries of find_semantic_matches, from the similarity sim[c] of the
\* skill to each canonical skill c
SemanticEntries[skill \in Str, threshold \in Float, order \in Seq(Str), sim \in [_normalized_skills -> Float]] ==
  LET Hit(c) == FGe[sim[c], threshold]
      Entry(c) ==
        SkillMatch(skill, c, sim[c],
                   IF FLt[sim[c], F0_9] THEN "semantic" ELSE "near_exact")
      hits == SelectSeq(order, Hit)
  IN  Take(SortByConfidence[[i \in 1..Len(hits) |-> Entry(hits[i])]], 5)

find_semantic_matches[skill \in Str, threshold \in Float, seed \in HashSeeds] ==
  IF skill = <<>> \/ IsBlank(skill) THEN <<>>
  ELSE SemanticEntries[skill, threshold,
                       IterationOrder(seed, _normalized_skills),
                       [c \in _normalized_skills |-> semantic_similarity[skill, c]]]

\* a test that finds no name in seen_skills
NeverInSeenSkills(matches, i) == TRUE

\* match.normalized not in seen_skills, for the match at position i
NotInSeenSkills(matches, i) ==
  \A j \in 1..(i - 1) : matches[j].normalized # matches[i].normalized

\* the entries whose canonical name did not occur earlier in the list
UniqueByNormalized[matches \in Seq(SkillMatches)] ==
  LET First(i) == NotInSeenSkills(matches, i)
      kept == SelectSeq([i \in 1..Len(matches) |-> i], First)
  IN  [k \in 1..Len(kept) |-> matches[kept[k]]]

\* the alias entry of fuzzy_match_skill
AliasMatches[skill \in Str, normalized_input \in Str] ==
  IF normalized_input \in DOMAIN _alias_to_skill
  THEN <<SkillMatch(skill, _alias_to_skill[normalized_input], F0_95, "alias")>>
  ELSE <<>>

\* max(a, b)
FMax[x \in Float, y \in Float] == IF FGt[x, y] THEN x ELSE y

\* the fuzzy entries, from the ratio similarity[c] of the normalized input
\* to each canonical skill c
FuzzyMatches[skill \in Str, fuzzy_threshold \in Float, order \in Seq(Str), similarity \in [_normalized_skills -> Float]] ==
  LET Hit(c) == FGe[similarity[c], fuzzy_threshold]
      hits == SelectSeq(order, Hit)
  IN  [i \in 1..Len(hits) |->
         SkillMatch(skill, hits[i], similarity[hits[i]], "fuzzy")]

\* the matches with the semantic ones, which are looked for when there is
\* no match or the first one is below 0.8
WithSemantic[skill \in Str, threshold \in Float, seed \in HashSeeds, matches \in Seq(SkillMatches)] ==
  IF matches = <<>> \/ FLt[matches[1].confidence, F0_8]
  THEN matches \o find_semantic_matches[skill, FMax[F0_6, threshold], seed]
  ELSE matches

\* fuzzy_match_skill from the normalized input and its alias entry on
MatchNormalized[skill \in Str, threshold \in Float, seed \in HashSeeds, normalized_input \in Str, alias_matches \in Seq(SkillMatches)] ==
  IF normalized_input \in _normalized_skills
  THEN <<SkillMatch(skill, normalized_input, F1_0, "exact")>>
  ELSE IF /\ alias_matches # <<>>
          /\ FGe[alias_matches[1].confidence, F0_95]
          /\ FLe[threshold, F0_8]
  THEN alias_matches
  ELSE Take(UniqueByNormalized[SortByConfidence[
         WithSemantic[skill, threshold, seed,
           alias_matches
           \o FuzzyMatches[skill, FMax[F0_7, threshold],
                           IterationOrder(seed, _normalized_skills),
                           [c \in _normalized_skills |->
                              ratio[normalized_input, c]]]]]], 3)

fuzzy_match_skill[skill \in Str, threshold \in Float, seed \in HashSeeds] ==
  IF skill = <<>> \/ IsBlank(skill) THEN <<>>
  ELSE The({MatchNormalized[skill, threshold, seed, normalized_input,
                            AliasMatches[skill, normalized_input]] :
              normalized_input \in {normalize_skill[skill]}})

\* the loop of validate_and_match_skills over skills[i..]
\* matched.insert(0, best_match), which the loop does not do
PrependMatch(matched, best_match) == <<best_match>> \o matched

\* matched.append(best_match)
AppendMatch(matched, best_match) == Append(matched, best_match)

\* a loop that finds no name in seen_normalized
NeverSeen(seen_normalized, normalized) == FALSE

\* best_match.normalized in seen_normalized
Seen(seen_normalized, normalized) == normalized \in seen_normalized

MatchLoop[skills \in Seq(Str), i \in Nat, matched \in Seq(SkillMatches), unmatched \in Seq(Str), seen_normalized \in SUBSET Str, seed \in HashSeeds] ==
  IF i > Len(skills) THEN <<matched, unmatched>>
  ELSE IF skills[i] = <<>> \/ IsBlank(skills[i])
  THEN MatchLoop[skills, i + 1, matched, unmatched, seen_normalized, seed]
  ELSE The({
    IF matches # <<>> /\ FGe[matches[1].confidence, F0_7]
    THEN IF ~Seen(seen_normalized, matches[1].normalized)
         THEN MatchLoop[skills, i + 1, AppendMatch(matched, matches[1]),
                        unmatched,
                        seen_normalized \cup {matches[1].normalized}, seed]
         ELSE MatchLoop[skills, i + 1, matched, unmatched,
                        seen_normalized, seed]
    ELSE MatchLoop[skills, i + 1, matched, Append(unmatched, strip[skills[i]]),
                   seen_normalized, seed] :
    matches \in {fuzzy_match_skill[skills[i], F0_7, seed]}})

\* <<matched, unmatched>>
validate_and_match_skills[skills \in Seq(Str), seed \in HashSeeds] ==
  MatchLoop[skills, 1, <<>>, <<>>, {}, seed]


(***************************************************************************)
(* EnhancedScoringEngine (backend/scoring_engine.py).                      *)
(***************************************************************************)
\* WeightingProfile(technical, soft, experience, qualifications,
\* responsibilities); the defaults are the fields' default values
WeightingProfile(technical, soft, experience, qualifications, responsibilities) ==
  [technical_skills_weight |-> technical, soft_skills_weight |-> soft,
   experience_weight |-> experience, qualifications_weight |-> qualifications,
   responsibilities_weight |-> responsibilities]

WEIGHTING_PROFILES ==
  [software_engineering |->
     WeightingProfile(F0_4, F0_1, F0_3,
                      F0_1, F0_1),
   data_science |->
     WeightingProfile(F0_35, F0_15, F0_25,
                      F0_15, F0_1),
   product_management |->
     WeightingProfile(F0_15, F0_3, F0_25,
                      F0_1, F0_2),
   sales |->
     WeightingProfile(F0_05, F0_4, F0_3,
                      F0_1, F0_15),
   marketing |->
     WeightingProfile(F0_2, F0_25, F0_25,
                      F0_1, F0_2),
   default |->
     WeightingProfile(F0_3, F0_15, F0_25,
                      F0_15, F0_15)]

\* Optional values: None is <<>>, a present value v is <<v>>
None == <<>>
Some(v) == <<v>>

\* the keyword lists of infer_industry, in declaration order
industry_patterns == <<
  [industry |-> "software_engineering",
   keywords |-> {<<"s", "o", "f", "t", "w", "a", "r", "e">>, <<"d", "e", "v", "e", "l", "o", "p", "e", "r">>, <<"p", "r", "o", "g", "r", "a", "m", "m", "i", "n", "g">>, <<"e", "n", "g", "i", "n", "e", "e", "r">>, <<"b", "a", "c", "k", "e", "n", "d">>, <<"f", "r", "o", "n", "t", "e", "n", "d">>, <<"f", "u", "l", "l", "s", "t", "a", "c", "k">>, <<"d", "e", "v", "o", "p", "s">>, <<"a", "p", "i">>, <<"m", "i", "c", "r", "o", "s", "e", "r", "v", "i", "c", "e", "s">>, <<"a", "r", "c", "h", "i", "t", "e", "c", "t">>}],
  [industry |-> "data_science",
   keywords |-> {<<"d", "a", "t", "a", " ", "s", "c", "i", "e", "n", "t", "i", "s", "t">>, <<"m", "a", "c", "h", "i", "n", "e", " ", "l", "e", "a", "r", "n", "i", "n", "g">>, <<"m", "l">>, <<"a", "i">>, <<"a", "n", "a", "l", "y", "t", "i", "c", "s">>, <<"s", "t", "a", "t", "i", "s", "t", "i", "c", "s">>, <<"m", "o", "d", "e", "l", "i", "n", "g">>, <<"d", "a", "t", "a", " ", "e", "n", "g", "i", "n", "e", "e", "r">>, <<"b", "i", "g", " ", "d", "a", "t", "a">>, <<"e", "t", "l">>}],
  [industry |-> "product_management",
   keywords |-> {<<"p", "r", "o", "d", "u", "c", "t", " ", "m", "a", "n", "a", "g", "e", "r">>, <<"p", "r", "o", "d", "u", "c", "t", " ", "o", "w", "n", "e", "r">>, <<"r", "o", "a", "d", "m", "a", "p">>, <<"s", "t", "a", "k", "e", "h", "o", "l", "d", "e", "r">>, <<"a", "g", "i", "l", "e">>, <<"s", "c", "r", "u", "m">>, <<"u", "s", "e", "r", " ", "s", "t", "o", "r", "i", "e", "s">>, <<"r", "e", "q", "u", "i", "r", "e", "m", "e", "n", "t", "s">>, <<"s", "t", "r", "a", "t", "e", "g", "y">>}],
  [industry |-> "sales",
   keywords |-> {<<"s", "a", "l", "e", "s">>, <<"a", "c", "c", "o", "u", "n", "t", " ", "m", "a", "n", "a", "g", "e", "r">>, <<"b", "u", "s", "i", "n", "e", "s", "s", " ", "d", "e", "v", "e", "l", "o", "p", "m", "e", "n", "t">>, <<"r", "e", "v", "e", "n", "u", "e">>, <<"q", "u", "o", "t", "a">>, <<"p", "i", "p", "e", "l", "i", "n", "e">>, <<"c", "r", "m">>, <<"c", "l", "i", "e", "n", "t">>, <<"p", "r", "o", "s", "p", "e", "c", "t">>}],
  [industry |-> "marketing",
   keywords |-> {<<"m", "a", "r", "k", "e", "t", "i", "n", "g">>, <<"c", "a", "m", "p", "a", "i", "g", "n">>, <<"b", "r", "a", "n", "d">>, <<"c", "o", "n", "t", "e", "n", "t">>, <<"s", "o", "c", "i", "a", "l", " ", "m", "e", "d", "i", "a">>, <<"s", "e", "o">>, <<"s", "e", "m">>, <<"g", "r", "o", "w", "t", "h">>, <<"a", "c", "q", "u", "i", "s", "i", "t", "i", "o", "n">>, <<"e", "n", "g", "a", "g", "e", "m", "e", "n", "t">>}]
>>

\* the truthy entries of infer_industry's text_fields
TextFields(job) ==
  job.responsibilities \o job.required_skills.technical
  \o (IF job.seniority_level = None \/ job.seniority_level[1] = <<>>
      THEN <<>> ELSE <<job.seniority_level[1]>>)

\* a max() that keeps the last of the entries with the highest score
LastMaxScored(scored, score) ==
  CHOOSE i \in scored :
    \A j \in scored : score[j] < score[i] \/ (score[j] = score[i] /\ j <= i)

\* max(industry_scores, key=industry_scores.get): max() keeps the first of
\* the entries with the highest score
MaxScored(scored, score) ==
  CHOOSE i \in scored :
    \A j \in scored : score[j] < score[i] \/ (score[j] = score[i] /\ i <= j)

\* the keywords of pattern i found in the text
KeywordScore(combined_text) ==
  [i \in 1..Len(industry_patterns) |->
     Cardinality({k \in industry_patterns[i].keywords :
                    Contains(combined_text, k)})]

infer_industry(job) ==
  LET score  == KeywordScore(lower[Join(TextFields(job), <<" ">>)])
      scored == {i \in 1..Len(industry_patterns) : score[i] > 0}
  IN  IF scored = {} THEN "default"
      ELSE industry_patterns[MaxScored(scored, score)].industry

\* job_confidences.get(key, default); a confidence dict is a function
Confidence(job_confidences, key, default) ==
  IF key \in DOMAIN job_confidences THEN job_confidences[key] ELSE default

\* the dict {}
NoConfidences == <<>>

\* related_bonus after n additions of 0.3 (an int 0 until the first one)
RECURSIVE RelatedBonus(_)
RelatedBonus(n) ==
  IF n = 0 THEN FZero ELSE FAdd[RelatedBonus(n - 1), F0_3]

\* {m.normalized for m in matches}
NormalizedOf(matches) == {matches[i].normalized : i \in 1..Len(matches)}

\* the required skills that are not matched directly and have a related
\* skill on the CV
RelatedCount(cv_normalized, job_normalized, seed) ==
  Cardinality({job_skill \in job_normalized \ cv_normalized :
                 cv_normalized \cap Range(get_related_skills[job_skill, seed]) # {}})

\* min(100, int(weighted_score * 100))
TechnicalFinalScore(match_count, total_required, related_bonus, confidence) ==
  The({IF scaled > 100 THEN 100 ELSE scaled :
       scaled \in {FTrunc[FMul[
         FAdd[FMul[FDiv[FAdd[FFromInt[match_count], related_bonus],
                        FFromInt[total_required]],
                   confidence],
              FMul[FSub[F1_0, confidence], F0_7]],
         FFromInt[100]]]}})

\* the result once the required skills have been matched
TechnicalMatched(direct_matches, total_required, related_bonus, confidence, seed) ==
  [score |-> TechnicalFinalScore(Cardinality(direct_matches), total_required,
                                 related_bonus, confidence),
   explanation |-> [text |-> "{match_count}/{total_required} required skills matched",
                    match_count |-> Cardinality(direct_matches),
                    total_required |-> total_required,
                    related_bonus |-> related_bonus],
   \* list(direct_matches)
   matched_skills |-> IterationOrder(seed, direct_matches)]

TechnicalResult(job_skills, cv_normalized, job_normalized, job_confidences, seed) ==
  IF job_skills = <<>>
  THEN [score |-> 85,
        explanation |-> [text |-> "No specific technical skills required",
                         match_count |-> 0, total_required |-> 0,
                         related_bonus |-> FZero],
        matched_skills |-> <<>>]
  ELSE IF job_normalized = {}
  THEN [score |-> 75,
        explanation |-> [text |-> "Unable to parse required technical skills",
                         match_count |-> 0, total_required |-> 0,
                         related_bonus |-> FZero],
        matched_skills |-> <<>>]
  ELSE TechnicalMatched(cv_normalized \cap job_normalized,
                        Cardinality(job_normalized),
                        RelatedBonus(RelatedCount(cv_normalized, job_normalized, seed)),
                        Confidence(job_confidences, "required_skills", F0_8),
                        seed)

calculate_technical_skills_score(cv_skills, job_skills, job_confidences, seed) ==
  TechnicalResult(job_skills,
                  NormalizedOf(validate_and_match_skills[cv_skills, seed][1]),
                  NormalizedOf(validate_and_match_skills[job_skills, seed][1]),
                  job_confidences, seed)

(***************************************************************************)
(* The year patterns of calculate_experience_score.  After its digits a    *)
(* pattern continues with a character that is no digit, so a match takes   *)
(* a whole run of digits, and two matches of one pattern never overlap.    *)
(***************************************************************************)
RECURSIVE SkipDigits(_, _)
SkipDigits(s, i) ==
  IF i <= Len(s) /\ s[i] \in Digits THEN SkipDigits(s, i + 1) ELSE i

RECURSIVE SkipSpace(_, _)
SkipSpace(s, i) ==
  IF i <= Len(s) /\ s[i] \in Whitespace THEN SkipSpace(s, i + 1) ELSE i

\* s continues with lit at position i
HasAt(s, i, lit) ==
  i + Len(lit) - 1 <= Len(s) /\ SubSeq(s, i, i + Len(lit) - 1) = lit

Optional(s, i, lit) == IF HasAt(s, i, lit) THEN i + Len(lit) ELSE i

DigitValue == [c \in Digits |-> IndexIn(DigitChars, c) - 1]

\* int(digits)
RECURSIVE ParseInt(_)
ParseInt(digits) ==
  IF digits = <<>> THEN 0
  ELSE 10 * ParseInt(SubSeq(digits, 1, Len(digits) - 1))
       + DigitValue[digits[Len(digits)]]

\* position after years?\s* from i, or 0
AfterYears(s, i) ==
  IF HasAt(s, i, <<"y", "e", "a", "r">>)
  THEN SkipSpace(s, Optional(s, i + 4, <<"s">>)) ELSE 0

\* (\d+)\+?\s*years?\s*(?:of\s*)?experience matches at i
YearsOfExperienceAt(s, i) ==
  LET j == SkipDigits(s, i)
      k == AfterYears(s, SkipSpace(s, Optional(s, j, <<"+">>)))
  IN  /\ j > i
      /\ k > 0
      /\ \/ HasAt(s, k, <<"e", "x", "p", "e", "r", "i", "e", "n", "c", "e">>)
         \/ HasAt(s, k, <<"o", "f">>) /\ HasAt(s, SkipSpace(s, k + 2), <<"e", "x", "p", "e", "r", "i", "e", "n", "c", "e">>)

\* (\d+)\+?\s*years?\s*in matches at i
YearsInAt(s, i) ==
  LET j == SkipDigits(s, i)
      k == AfterYears(s, SkipSpace(s, Optional(s, j, <<"+">>)))
  IN  j > i /\ k > 0 /\ HasAt(s, k, <<"i", "n">>)

\* the digits start of over\s*(\d+)\s*years? matching at i, or 0
OverYearsAt(s, i) ==
  LET d == SkipSpace(s, i + 4)
      j == SkipDigits(s, d)
  IN  IF HasAt(s, i, <<"o", "v", "e", "r">>) /\ j > d /\ HasAt(s, SkipSpace(s, j), <<"y", "e", "a", "r">>)
      THEN d ELSE 0

\* the digits start of more\s*than\s*(\d+)\s*years? matching at i, or 0
MoreThanYearsAt(s, i) ==
  LET t == SkipSpace(s, i + 4)
      d == SkipSpace(s, t + 4)
      j == SkipDigits(s, d)
  IN  IF /\ HasAt(s, i, <<"m", "o", "r", "e">>)
         /\ HasAt(s, t, <<"t", "h", "a", "n">>)
         /\ j > d
         /\ HasAt(s, SkipSpace(s, j), <<"y", "e", "a", "r">>)
      THEN d ELSE 0

Captured(s, d) == ParseInt(SubSeq(s, d, SkipDigits(s, d) - 1))

\* the captures of re.findall over the four year_patterns
YearCaptures(s) ==
  LET RunStart(i) == s[i] \in Digits /\ (i = 1 \/ s[i - 1] \notin Digits)
  IN  {Captured(s, i) : i \in {n \in 1..Len(s) : RunStart(n) /\ YearsOfExperienceAt(s, n)}}
      \cup {Captured(s, i) : i \in {n \in 1..Len(s) : RunStart(n) /\ YearsInAt(s, n)}}
      \cup {Captured(s, OverYearsAt(s, i)) : i \in {n \in 1..Len(s) : OverYearsAt(s, n) > 0}}
      \cup {Captured(s, MoreThanYearsAt(s, i)) : i \in {n \in 1..Len(s) : MoreThanYearsAt(s, n) > 0}}

\* cv_years
ExtractYears(experience_summary) ==
  LET found == YearCaptures(lower[experience_summary])
  IN  IF found = {} THEN 0 ELSE CHOOSE y \in found : \A z \in found : z <= y

Min(a, b) == IF a < b THEN a ELSE b
Max(a, b) == IF a > b THEN a ELSE b

\* cv_years >= required_years * 0.9, a narrower "close" than the code's
WithinTenPercent(cv_years, required_years) ==
  FGe[FFromInt[cv_years], FMul[FFromInt[required_years], F0_9]]

\* cv_years >= required_years * 0.8
CloseToRequired(cv_years, required_years) ==
  FGe[FFromInt[cv_years], FMul[FFromInt[required_years], F0_8]]

\* the score with the bonus of the first branch subtracted for the years
\* above the requirement
ExperienceBasePenalty(cv_years, required_years) ==
  IF cv_years >= required_years
  THEN Min(100, 80 + (required_years - cv_years) * 5)
  ELSE The({IF CloseToRequired(cv_years, required_years)
            THEN 70 + FTrunc[FMul[quotient, FFromInt[10]]]
            ELSE Max(30, FTrunc[FMul[quotient, FFromInt[60]]]) :
            quotient \in {FDiv[FFromInt[cv_years], FFromInt[required_years]]}})

\* the score before the confidence weighting
ExperienceBase(cv_years, required_years) ==
  IF cv_years >= required_years
  THEN Min(100, 80 + (cv_years - required_years) * 5)
  ELSE The({IF CloseToRequired(cv_years, required_years)
            THEN 70 + FTrunc[FMul[quotient, FFromInt[10]]]
            ELSE Max(30, FTrunc[FMul[quotient, FFromInt[60]]]) :
            quotient \in {FDiv[FFromInt[cv_years], FFromInt[required_years]]}})

ExperienceResult(cv_years, required_years, confidence) ==
  [score |-> FTrunc[FAdd[FMul[FFromInt[ExperienceBase(cv_years, required_years)],
                              confidence],
                         FMul[FSub[F1_0, confidence], FFromInt[70]]]],
   explanation |->
     [text |-> IF cv_years >= required_years
               THEN "{cv_years} years experience (>={required_years} required)"
               ELSE IF CloseToRequired(cv_years, required_years)
               THEN "{cv_years} years experience (close to {required_years} required)"
               ELSE "{cv_years} years experience (<{required_years} required)",
      cv_years |-> cv_years, required_years |-> required_years]]

calculate_experience_score(cv, job, job_confidences) ==
  IF job.experience.minimum_years = None \/ job.experience.minimum_years[1] = 0
  THEN [score |-> 80,
        explanation |-> [text |-> "No specific experience requirement",
                         cv_years |-> 0, required_years |-> 0]]
  ELSE ExperienceResult(ExtractYears(cv.key_information.experience_summary),
                        job.experience.minimum_years[1],
                        Confidence(job_confidences, "experience", F0_8))

\* {skill.lower[].strip[] for skill in skills}
LowerStripSet(skills) == {strip[lower[skills[i]]] : i \in 1..Len(skills)}

\* the score on a base of 50: base_score = 50 + (match_ratio * 50)
HarshSoftResult(matched, required, confidence) ==
  [score |-> FTrunc[FAdd[
     FMul[FAdd[FFromInt[50],
               FMul[FDiv[FFromInt[matched], FFromInt[required]], FFromInt[50]]],
          confidence],
     FMul[FSub[F1_0, confidence], FFromInt[70]]]],
   explanation |-> [text |-> "{matched}/{required} soft skills matched",
                    matched |-> matched, required |-> required]]

SoftResult(matched, required, confidence) ==
  [score |-> FTrunc[FAdd[
     FMul[FAdd[FFromInt[60],
               FMul[FDiv[FFromInt[matched], FFromInt[required]], FFromInt[40]]],
          confidence],
     FMul[FSub[F1_0, confidence], FFromInt[70]]]],
   explanation |-> [text |-> "{matched}/{required} soft skills matched",
                    matched |-> matched, required |-> required]]

SoftMatched(cv_normalized, job_normalized, confidence) ==
  SoftResult(Cardinality(cv_normalized \cap job_normalized),
             Cardinality(job_normalized), confidence)

\* the score without the early return: match_ratio is 0 for an empty list
SoftScoreWithoutEarlyReturn(cv_soft_skills, job_soft_skills, job_confidences) ==
  IF job_soft_skills = <<>>
  THEN [score |-> FTrunc[FAdd[
          FMul[FFromInt[60], Confidence(job_confidences, "required_skills", F0_7)],
          FMul[FSub[F1_0, Confidence(job_confidences, "required_skills", F0_7)],
               FFromInt[70]]]],
        explanation |-> [text |-> "{matched}/{required} soft skills matched",
                         matched |-> 0, required |-> 0]]
  ELSE SoftMatched(LowerStripSet(cv_soft_skills), LowerStripSet(job_soft_skills),
                   Confidence(job_confidences, "required_skills", F0_7))

calculate_soft_skills_score(cv_soft_skills, job_soft_skills, job_confidences) ==
  IF job_soft_skills = <<>>
  THEN [score |-> 75,
        explanation |-> [text |-> "No specific soft skills specified",
                         matched |-> 0, required |-> 0]]
  ELSE SoftMatched(LowerStripSet(cv_soft_skills), LowerStripSet(job_soft_skills),
                   Confidence(job_confidences, "required_skills", F0_7))


\* _norm_cert's alias dict
CertAliases == <<
  <<<<"a", "w", "s", " ", "c", "c", "p">>, <<"a", "w", "s", " ", "c", "l", "o", "u", "d", " ", "p", "r", "a", "c", "t", "i", "t", "i", "o", "n", "e", "r">>>>,
  <<<<"a", "w", "s", " ", "c", "l", "o", "u", "d", " ", "p", "r", "a", "c", "t", "i", "t", "i", "o", "n", "e", "r">>, <<"a", "w", "s", " ", "c", "l", "o", "u", "d", " ", "p", "r", "a", "c", "t", "i", "t", "i", "o", "n", "e", "r">>>>,
  <<<<"a", "w", "s", " ", "c", "e", "r", "t", "i", "f", "i", "e", "d", " ", "c", "l", "o", "u", "d", " ", "p", "r", "a", "c", "t", "i", "t", "i", "o", "n", "e", "r">>, <<"a", "w", "s", " ", "c", "l", "o", "u", "d", " ", "p", "r", "a", "c", "t", "i", "t", "i", "o", "n", "e", "r">>>>,
  <<<<"p", "m", "p">>, <<"p", "r", "o", "j", "e", "c", "t", " ", "m", "a", "n", "a", "g", "e", "m", "e", "n", "t", " ", "p", "r", "o", "f", "e", "s", "s", "i", "o", "n", "a", "l">>>>,
  <<<<"p", "r", "o", "j", "e", "c", "t", " ", "m", "a", "n", "a", "g", "e", "m", "e", "n", "t", " ", "p", "r", "o", "f", "e", "s", "s", "i", "o", "n", "a", "l">>, <<"p", "r", "o", "j", "e", "c", "t", " ", "m", "a", "n", "a", "g", "e", "m", "e", "n", "t", " ", "p", "r", "o", "f", "e", "s", "s", "i", "o", "n", "a", "l">>>>,
  <<<<"p", "r", "i", "n", "c", "e", "2">>, <<"p", "r", "i", "n", "c", "e", "2", " ", "p", "r", "a", "c", "t", "i", "t", "i", "o", "n", "e", "r">>>>,
  <<<<"p", "r", "i", "n", "c", "e", "2", " ", "p", "r", "a", "c", "t", "i", "t", "i", "o", "n", "e", "r">>, <<"p", "r", "i", "n", "c", "e", "2", " ", "p", "r", "a", "c", "t", "i", "t", "i", "o", "n", "e", "r">>>>,
  <<<<"s", "c", "r", "u", "m", " ", "m", "a", "s", "t", "e", "r">>, <<"s", "c", "r", "u", "m", " ", "m", "a", "s", "t", "e", "r">>>>,
  <<<<"p", "s", "m">>, <<"s", "c", "r", "u", "m", " ", "m", "a", "s", "t", "e", "r">>>>,
  <<<<"p", "s", "m", " ", "i">>, <<"s", "c", "r", "u", "m", " ", "m", "a", "s", "t", "e", "r">>>>,
  <<<<"a", "z", "-", "9", "0", "0">>, <<"m", "i", "c", "r", "o", "s", "o", "f", "t", " ", "a", "z", "u", "r", "e", " ", "f", "u", "n", "d", "a", "m", "e", "n", "t", "a", "l", "s">>>>,
  <<<<"a", "z", "u", "r", "e", " ", "f", "u", "n", "d", "a", "m", "e", "n", "t", "a", "l", "s">>, <<"m", "i", "c", "r", "o", "s", "o", "f", "t", " ", "a", "z", "u", "r", "e", " ", "f", "u", "n", "d", "a", "m", "e", "n", "t", "a", "l", "s">>>>,
  <<<<"m", "i", "c", "r", "o", "s", "o", "f", "t", " ", "a", "z", "u", "r", "e", " ", "f", "u", "n", "d", "a", "m", "e", "n", "t", "a", "l", "s">>, <<"m", "i", "c", "r", "o", "s", "o", "f", "t", " ", "a", "z", "u", "r", "e", " ", "f", "u", "n", "d", "a", "m", "e", "n", "t", "a", "l", "s">>>>
>>

_norm_cert(s) ==
  LET x    == strip[lower[s]]
      hits == {i \in 1..Len(CertAliases) : CertAliases[i][1] = x}
  IN  IF s = <<>> THEN <<>>
      ELSE IF hits = {} THEN x
      ELSE CertAliases[CHOOSE i \in hits : TRUE][2]

\* [f(x) for x in seq]
TitleAll(seq) == [i \in 1..Len(seq) |-> title[seq[i]]]

\* strengths_items.extend(seq), which keeps empty items and duplicates
ExtendAll(strengths_items, seq) == strengths_items \o seq

\* _extend_unique(seq) on strengths_items: the truthy items of seq that
\* are not in the list yet are appended, each once
ExtendUnique(strengths_items, seq) ==
  LET New(i) == /\ seq[i] # <<>>
                /\ seq[i] \notin Range(strengths_items)
                /\ \A j \in 1..(i - 1) : seq[j] # seq[i]
      added == SelectSeq([i \in 1..Len(seq) |-> i], New)
  IN  strengths_items \o [k \in 1..Len(added) |-> seq[added[k]]]

\* str(n) for an int n >= 0
RECURSIVE IntToStr(_)
IntToStr(n) ==
  IF n < 10 THEN <<DigitChars[n + 1]>>
  ELSE IntToStr(n \div 10) \o <<DigitChars[(n % 10) + 1]>>

InScoreRange(n) == n >= 0 /\ n <= 100

\* MatchingScore(...): pydantic rejects a score outside [0, 100]
MatchingScore(fields) ==
  IF /\ InScoreRange(fields.overall_match_score)
     /\ InScoreRange(fields.technical_skills_score)
     /\ InScoreRange(fields.soft_skills_score)
     /\ InScoreRange(fields.experience_score)
     /\ InScoreRange(fields.qualifications_score)
     /\ InScoreRange(fields.key_responsibilities_score)
  THEN fields
  ELSE [raised |-> "ValidationError"]

\* int(tech * w_tech) + ... + int(resp * w_resp): each product truncated
TruncatedSum(profile, tech_score, soft_score, exp_score, qual_score, resp_score) ==
  FTrunc[FMul[FFromInt[tech_score], profile.technical_skills_weight]]
  + FTrunc[FMul[FFromInt[soft_score], profile.soft_skills_weight]]
  + FTrunc[FMul[FFromInt[exp_score], profile.experience_weight]]
  + FTrunc[FMul[FFromInt[qual_score], profile.qualifications_weight]]
  + FTrunc[FMul[FFromInt[resp_score], profile.responsibilities_weight]]

\* int(tech * w_tech + soft * w_soft + exp * w_exp + qual * w_qual
\*     + resp * w_resp), summed left to right in binary64
WeightedSum(profile, tech_score, soft_score, exp_score, qual_score, resp_score) ==
  FTrunc[FAdd[FAdd[FAdd[FAdd[
    FMul[FFromInt[tech_score], profile.technical_skills_weight],
    FMul[FFromInt[soft_score], profile.soft_skills_weight]],
    FMul[FFromInt[exp_score], profile.experience_weight]],
    FMul[FFromInt[qual_score], profile.qualifications_weight]],
    FMul[FFromInt[resp_score], profile.responsibilities_weight]]]

\* the report, from the inferred industry and the three computed scores
MatchReport(cv_analysis, job_requirements, industry, tech, soft, exp) ==
  LET profile  == IF industry \in DOMAIN WEIGHTING_PROFILES
                  THEN WEIGHTING_PROFILES[industry]
                  ELSE WEIGHTING_PROFILES["default"]
      tech_score   == tech.score
      matched_tech == tech.matched_skills
      soft_score   == soft.score
      exp_score    == exp.score
      qual_score   == 75
      resp_score   == 70
      \* the five scores are values by the time the sum is formed
      overall_score ==
        CHOOSE v \in {WeightedSum(p, t, s, e, qual_score, resp_score) :
                        p \in {profile}, t \in {tech_score},
                        s \in {soft_score}, e \in {exp_score}} : TRUE
      cv_soft_norm  == LowerStripSet(cv_analysis.key_information.soft_skills)
      job_soft_norm == LowerStripSet(job_requirements.required_skills.soft)
      matched_soft  == SortedStrs((cv_soft_norm \cap job_soft_norm) \ {<<>>})
      matched_soft_display == TitleAll(matched_soft)
      cv_quals_norm  == {_norm_cert(q) : q \in Range(cv_analysis.key_information.certifications)}
      job_quals_norm == {_norm_cert(q) : q \in Range(job_requirements.qualifications)}
      matched_qualifications ==
        SortedStrs((cv_quals_norm \cap job_quals_norm) \ {<<>>})
      matched_qualifications_display == TitleAll(matched_qualifications)
      cv_langs  == {lower[strip[l]] : l \in Range(cv_analysis.key_information.languages)}
      job_langs == {lower[strip[l]] : l \in Range(job_requirements.languages)}
      matched_languages_list == SortedStrs(cv_langs \cap job_langs)
      cv_resps_norm  == {lower[strip[r]] : r \in Range(cv_analysis.key_information.responsibilities)}
      job_resps_norm == {lower[strip[r]] : r \in Range(job_requirements.responsibilities)}
      matched_responsibilities ==
        SortedStrs((cv_resps_norm \cap job_resps_norm) \ {<<>>})
      gaps ==
        (IF tech_score < 60 THEN <<"Technical skills gap">> ELSE <<>>)
        \o (IF exp_score < 60 THEN <<"Experience below requirements">> ELSE <<>>)
        \o (IF soft_score < 60 THEN <<"Soft skills development needed">> ELSE <<>>)
      strengths_items ==
        ExtendUnique(ExtendUnique(ExtendUnique(ExtendUnique(ExtendUnique(<<>>,
          matched_tech), matched_soft_display), matched_qualifications_display),
          matched_languages_list), matched_responsibilities)
      strengths == Take(strengths_items, 10)
      missing_tech_skills ==
        SortedStrs(Range(job_requirements.required_skills.technical)
                   \ Range(matched_tech))
      missing_soft_skills ==
        SortedStrs({s \in Range(job_requirements.required_skills.soft) :
                      strip[lower[s]] \notin job_soft_norm})
      missing_qualifications   == SortedStrs(job_quals_norm \ cv_quals_norm)
      missing_languages        == SortedStrs(job_langs \ cv_langs)
      missing_responsibilities == SortedStrs(job_resps_norm \ cv_resps_norm)
      minimum_years == job_requirements.experience.minimum_years
      top_missing ==
        Take(missing_tech_skills, 3)
        \o TitleAll(Take(missing_soft_skills, 2))
        \o (IF exp_score < 70 /\ minimum_years # None /\ minimum_years[1] # 0
            THEN <<IntToStr(minimum_years[1]) \o <<"+", " ", "y", "e", "a", "r", "s", " ", "e", "x", "p", "e", "r", "i", "e", "n", "c", "e">>>>
            ELSE <<>>)
        \o TitleAll(Take(missing_qualifications, 2))
        \o TitleAll(Take(missing_languages, 2))
        \o Take(missing_responsibilities, 2)
  IN  MatchingScore(
        [overall_match_score |-> overall_score,
         overall_explanation |->
           [text |-> "Weighted score using {industry} profile. Tech: {tech_score} ({technical_skills_weight:.0%}), Experience: {exp_score} ({experience_weight:.0%})",
            industry |-> industry, tech_score |-> tech_score,
            exp_score |-> exp_score],
         technical_skills_score |-> tech_score,
         technical_skills_explanation |-> tech.explanation,
         soft_skills_score |-> soft_score,
         soft_skills_explanation |-> soft.explanation,
         experience_score |-> exp_score,
         experience_explanation |-> exp.explanation,
         qualifications_score |-> qual_score,
         qualifications_explanation |-> "Qualifications assessment needs enhancement",
         key_responsibilities_score |-> resp_score,
         key_responsibilities_explanation |-> "Responsibilities matching needs enhancement",
         improvement_suggestions |->
           <<IF top_missing # <<>>
             THEN <<"C", "o", "n", "s", "i", "d", "e", "r", " ", "d", "e", "v", "e", "l", "o", "p", "i", "n", "g", " ", "s", "k", "i", "l", "l", "s", " ", "i", "n", ":", " ">>
                  \o Join(Take(top_missing, 3), <<",", " ">>)
             ELSE <<"S", "t", "r", "o", "n", "g", " ", "o", "v", "e", "r", "a", "l", "l", " ", "p", "r", "o", "f", "i", "l", "e">>>>,
         strengths |-> strengths,
         gaps |-> gaps])

calculate_weighted_score(cv_analysis, job_requirements, seed) ==
  MatchReport(cv_analysis, job_requirements, infer_industry(job_requirements),
              \* JobRequirements has no confidences field
              calculate_technical_skills_score(
                cv_analysis.key_information.technical_skills,
                job_requirements.required_skills.technical,
                NoConfidences, seed),
              calculate_soft_skills_score(
                cv_analysis.key_information.soft_skills,
                job_requirements.required_skills.soft,
                NoConfidences),
              calculate_experience_score(cv_analysis, job_requirements,
                                         NoConfidences))

\* the entries fuzzy_match_skill holds when it reaches the semantic step:
\* the alias entry, then the fuzzy entries in iteration order
EarlierMatches[skill \in Str, threshold \in Float, seed \in HashSeeds, normalized_input \in Str] ==
  AliasMatches[skill, normalized_input]
  \o FuzzyMatches[skill, FMax[F0_7, threshold],
                  IterationOrder(seed, _normalized_skills),
                  [c \in _normalized_skills |-> ratio[normalized_input, c]]]

\* the path fuzzy_match_skill takes from the normalized input on: "exact"
\* and "alias" are the early returns, and after the fuzzy step
\* find_semantic_matches is called ("semantic") or not ("fuzzy")
PathNormalized[skill \in Str, threshold \in Float, seed \in HashSeeds, normalized_input \in Str, alias_matches \in Seq(SkillMatches)] ==
  IF normalized_input \in _normalized_skills
  THEN [step |-> "exact", matches |-> <<>>]
  ELSE IF /\ alias_matches # <<>>
          /\ FGe[alias_matches[1].confidence, F0_95]
          /\ FLe[threshold, F0_8]
  THEN [step |-> "alias", matches |-> alias_matches]
  ELSE The({[step |-> IF matches = <<>> \/ FLt[matches[1].confidence, F0_8]
                      THEN "semantic" ELSE "fuzzy",
             matches |-> matches] :
              matches \in {EarlierMatches[skill, threshold, seed, normalized_input]}})

\* the path of fuzzy_match_skill(skill, threshold)
MatchPath[skill \in Str, threshold \in Float, seed \in HashSeeds] ==
  IF skill = <<>> \/ IsBlank(skill) THEN [step |-> "blank", matches |-> <<>>]
  ELSE The({PathNormalized[skill, threshold, seed, normalized_input,
                           AliasMatches[skill, normalized_input]] :
              normalized_input \in {normalize_skill[skill]}})

(***************************************************************************)
(* validation.py: the consistency checks of DataValidator on the job       *)
(* requirements                                                            *)
(***************************************************************************)
\* self.seniority_patterns, in declaration order
seniority_patterns == <<
  [level |-> "junior",
   patterns |-> {<<"j", "u", "n", "i", "o", "r">>, <<"e", "n", "t", "r", "y">>, <<"a", "s", "s", "o", "c", "i", "a", "t", "e">>, <<"1", "-", "2">>, <<"0", "-", "2">>, <<"g", "r", "a", "d", "u", "a", "t", "e">>, <<"t", "r", "a", "i", "n", "e", "e">>}],
  [level |-> "mid",
   patterns |-> {<<"m", "i", "d">>, <<"i", "n", "t", "e", "r", "m", "e", "d", "i", "a", "t", "e">>, <<"3", "-", "5">>, <<"2", "-", "5">>, <<"e", "x", "p", "e", "r", "i", "e", "n", "c", "e", "d">>, <<"r", "e", "g", "u", "l", "a", "r">>}],
  [level |-> "senior",
   patterns |-> {<<"s", "e", "n", "i", "o", "r">>, <<"s", "r">>, <<"l", "e", "a", "d">>, <<"5", "+">>, <<"6", "+">>, <<"7", "+">>, <<"p", "r", "i", "n", "c", "i", "p", "a", "l">>, <<"s", "t", "a", "f", "f">>}],
  [level |-> "principal",
   patterns |-> {<<"p", "r", "i", "n", "c", "i", "p", "a", "l">>, <<"a", "r", "c", "h", "i", "t", "e", "c", "t">>, <<"d", "i", "r", "e", "c", "t", "o", "r">>, <<"1", "0", "+">>, <<"e", "x", "p", "e", "r", "t">>, <<"h", "e", "a", "d">>}]
>>

\* expected_ranges of _check_experience_seniority_consistency
expected_ranges ==
  [junior |-> <<0, 3>>,
   mid |-> <<2, 6>>,
   senior |-> <<5, 10>>,
   principal |-> <<8, 20>>]

\* self.common_soft_skills
common_soft_skills ==
  {<<"c", "o", "m", "m", "u", "n", "i", "c", "a", "t", "i", "o", "n">>, <<"t", "e", "a", "m", "w", "o", "r", "k">>, <<"l", "e", "a", "d", "e", "r", "s", "h", "i", "p">>, <<"p", "r", "o", "b", "l", "e", "m", "-", "s", "o", "l", "v", "i", "n", "g">>, <<"a", "n", "a", "l", "y", "t", "i", "c", "a", "l">>, <<"c", "r", "e", "a", "t", "i", "v", "e">>, <<"a", "d", "a", "p", "t", "a", "b", "l", "e">>, <<"o", "r", "g", "a", "n", "i", "z", "e", "d">>, <<"d", "e", "t", "a", "i", "l", "-", "o", "r", "i", "e", "n", "t", "e", "d">>, <<"c", "o", "l", "l", "a", "b", "o", "r", "a", "t", "i", "v", "e">>, <<"i", "n", "i", "t", "i", "a", "t", "i", "v", "e">>, <<"t", "i", "m", "e", " ", "m", "a", "n", "a", "g", "e", "m", "e", "n", "t">>, <<"c", "r", "i", "t", "i", "c", "a", "l", " ", "t", "h", "i", "n", "k", "i", "n", "g">>, <<"i", "n", "t", "e", "r", "p", "e", "r", "s", "o", "n", "a", "l">>}

ValidationIssue(field, issue_type, description, severity, suggested_fix) ==
  [field |-> field, issue_type |-> issue_type, description |-> description,
   severity |-> severity, suggested_fix |-> suggested_fix]

\* the levels one of whose patterns occurs in the seniority string
DetectedLevels(seniority) ==
  {i \in 1..Len(seniority_patterns) :
     \E pattern \in seniority_patterns[i].patterns : Contains(seniority, pattern)}

\* the issue, unless min_years lies in the expected range of the level
RangeIssue(detected_level, min_years) ==
  IF /\ expected_ranges[detected_level][1] <= min_years
     /\ min_years <= expected_ranges[detected_level][2]
  THEN <<>>
  ELSE <<ValidationIssue("experience.minimum_years", "inconsistency",
           "Experience requirement ({min_years} years) inconsistent with seniority level ({seniority})",
           "medium",
           Some("Expected {min_exp}-{max_exp} years for {detected_level} level"))>>

\* the loop over seniority_patterns stops at the first level with a pattern
\* in the string
LevelIssue(levels, min_years) ==
  IF levels = {} THEN <<>>
  ELSE RangeIssue(seniority_patterns[CHOOSE i \in levels :
                                       \A j \in levels : i <= j].level,
                  min_years)

_check_experience_seniority_consistency(job_req) ==
  IF \/ job_req.seniority_level = None
     \/ job_req.seniority_level[1] = <<>>
     \/ job_req.experience.minimum_years = None
     \/ job_req.experience.minimum_years[1] = 0
  THEN <<>>
  ELSE LevelIssue(DetectedLevels(lower[job_req.seniority_level[1]]),
                  job_req.experience.minimum_years[1])

\* the soft skills s with s.lower() not in self.common_soft_skills
NonStandardSoft(soft_skills) ==
  SelectSeq(soft_skills, LAMBDA s : lower[s] \notin common_soft_skills)

_check_skill_requirements(job_req) ==
  (IF Len(job_req.required_skills.technical) > 15
   THEN <<ValidationIssue("required_skills.technical", "suspicious",
            "Very long technical skills list ({len(tech_skills)} items) may indicate over-extraction",
            "low", Some("Review and consolidate skill requirements"))>>
   ELSE <<>>)
  \o (IF Cardinality(LowerStripSet(job_req.required_skills.technical))
         < Len(job_req.required_skills.technical)
      THEN <<ValidationIssue("required_skills.technical", "invalid",
               "Duplicate technical skills detected", "medium",
               Some("Remove duplicate entries"))>>
      ELSE <<>>)
  \o (IF FGt[FFromInt[Len(NonStandardSoft(job_req.required_skills.soft))],
             FMul[FFromInt[Len(job_req.required_skills.soft)], F0_5]]
      THEN <<ValidationIssue("required_skills.soft", "suspicious",
               "Many non-standard soft skills: {non_standard_soft[:3]}...",
               "low", None)>>
      ELSE <<>>)

\* a check that does not look at the skills
CompletenessOfResponsibilities(job_req) ==
  IF job_req.responsibilities = <<>>
  THEN <<ValidationIssue("responsibilities", "missing",
           "No job responsibilities extracted", "high",
           Some("Review source text for responsibility information"))>>
  ELSE <<>>

_check_job_completeness(job_req) ==
  (IF job_req.responsibilities = <<>>
   THEN <<ValidationIssue("responsibilities", "missing",
            "No job responsibilities extracted", "high",
            Some("Review source text for responsibility information"))>>
   ELSE <<>>)
  \o (IF /\ job_req.required_skills.technical = <<>>
         /\ job_req.required_skills.soft = <<>>
      THEN <<ValidationIssue("required_skills", "missing",
               "No skills requirements extracted", "critical",
               Some("Review source text for skill requirements"))>>
      ELSE <<>>)

\* an issue for each field of the confidences dict whose value is outside
\* [0, 1]
_check_confidence_scores(confidences) ==
  [i \in 1..Cardinality({field \in DOMAIN confidences :
                           ~(/\ FLe[FZero, confidences[field]]
                             /\ FLe[confidences[field], F1_0])}) |->
     ValidationIssue("confidences.{field}", "invalid",
       "Confidence score {conf} outside valid range [0, 1]", "high",
       Some("Clamp confidence to [0, 1] range"))]

\* the issues of the severity
OfSeverity(issues, severity) ==
  SelectSeq(issues, LAMBDA i : i.severity = severity)

\* a confidence that loses 0.1 an issue
SteepConfidence(critical_issues, high_issues, issues) ==
  IF critical_issues # <<>> THEN F0_3
  ELSE IF Len(high_issues) > 2 THEN F0_5
  ELSE IF Len(issues) > 5 THEN F0_7
  ELSE FSub[F0_9, FMul[FFromInt[Len(issues)], F0_1]]

\* the confidence of validate_job_requirements before it is clamped
JobConfidence(critical_issues, high_issues, issues) ==
  IF critical_issues # <<>> THEN F0_3
  ELSE IF Len(high_issues) > 2 THEN F0_5
  ELSE IF Len(issues) > 5 THEN F0_7
  ELSE FSub[F0_9, FMul[FFromInt[Len(issues)], F0_05]]

\* ValidationResult(is_valid, confidence_score = max(0.0, min(1.0, confidence)), issues)
ValidationResult(critical_issues, confidence, issues) ==
  [is_valid |-> Len(critical_issues) = 0,
   confidence_score |-> FMax[FZero, FMin[F1_0, confidence]],
   issues |-> issues]

JobResult(issues) ==
  ValidationResult(OfSeverity(issues, "critical"),
                   JobConfidence(OfSeverity(issues, "critical"),
                                 OfSeverity(issues, "high"), issues),
                   issues)

\* JobRequirements has no confidences field: getattr gives {}
validate_job_requirements(job_req) ==
  JobResult(_check_experience_seniority_consistency(job_req)
            \o _check_skill_requirements(job_req)
            \o _check_job_completeness(job_req)
            \o _check_confidence_scores(NoConfidences))

(***************************************************************************)
(* The program as a state machine.  Worker processes serve calls; a        *)
(* process draws its hash seed when it starts, which is when it serves     *)
(* its first call, and keeps it until the server is restarted.             *)
(***************************************************************************)
Procs == {1, 2}

\* the threads of a process that call normalize_skill
Threads == {1, 2}

\* the _ApiKeyContext objects of the LLM calls that can be under way at once
Contexts == {1, 2, 3}

VARIABLES
  seed,      \* seed[p]: None until process p has started, then Some(hash seed)
  call,      \* the taxonomy or engine call that has returned, with its result
  previous,  \* the call whose result was passed back in as the next input
  request,   \* None, or Some of the candidate and job records being scored
  response,  \* response[p]: None, or Some(what process p returned)
  cache,     \* the entries of normalize_skill's lru_cache, oldest first
  worker,    \* worker[t]: where thread t stands in the cached normalize_skill
  environ,   \* os.environ: OPENAI_API_KEY now and when the process started
  _key_lock, \* the asyncio.Lock of agents.py: locked, and the waiting contexts
  contexts,  \* contexts[c]: the fields of context c and where its call stands
  uploads,   \* the names of the files in UPLOAD_DIR
  run,       \* where the call of _run_with_retries stands, with what it did
  _store,    \* TTLCache._store: the entries [key, ts, value], oldest first
  clock,     \* time.time(), in seconds
  last_use   \* last_use[key]: the time of the last set or hit of the key

vars == <<seed, call, previous, request, response, cache, worker, environ, _key_lock, contexts, uploads, run, _store, clock, last_use>>

Resting == [pc |-> "resting"]

\* a process started without OPENAI_API_KEY
Unset == [OPENAI_API_KEY |-> <<>>, at_start |-> <<>>]  \* <<>> is None

\* asyncio.Lock()
Unlocked == [locked |-> FALSE, waiters |-> <<>>, woken |-> FALSE]

NoContext == [pc |-> "none"]

\* no call of _run_with_retries is under way
NoRun == [pc |-> "none"]

Idle == [op |-> "idle"]

Init ==
  /\ seed = [p \in Procs |-> None]
  /\ call = Idle
  /\ previous = Idle
  /\ request = None
  /\ response = [p \in Procs |-> None]
  /\ cache = <<>>
  /\ worker = [t \in Threads |-> Resting]
  /\ environ = Unset
  /\ _key_lock = Unlocked
  /\ contexts = [c \in Contexts |-> NoContext]
  /\ uploads = {}
  /\ run = NoRun
  /\ _store = <<>>
  /\ clock = 0
  /\ last_use = <<>>

\* the hash seeds process p can be running with
SeedsOf(p) == IF seed[p] = None THEN HashSeeds ELSE {seed[p][1]}

Quiet == call.op = "idle" /\ request = None
\* inputs of normalize_skill: every listed variant, every canonical name,
\* and variants in other letter case, with spaces, empty and blank
RawSkills ==
  {<<"K", "8", "s">>,
   <<"K", "U", "B", "E", "R", "N", "E", "T", "E", "S">>,
   <<"R", "E", "A", "C", "T", "J", "S">>,
   <<" ", " ", "R", "e", "a", "c", "t", ".", "J", "S", " ">>,
   <<"T", "f">>,
   <<"S", "c", "i", "k", "i", "t", "-", "L", "e", "a", "r", "n">>,
   <<"c", "+", "+">>,
   <<"C", "#">>,
   <<"n", "o", "d", "e", ".", "j", "s">>,
   <<>>,
   <<" ">>,
   <<"z", "z", "z">>}

NormalizeInputs == AllAliases \cup _normalized_skills \cup RawSkills

\* taxonomy.normalize_skill(skill)
Normalize(skill) ==
  /\ Quiet
  /\ call' = [op |-> "normalize_skill", skill |-> skill,
              result |-> normalize_skill[skill]]
  /\ UNCHANGED <<cache, worker, environ, _key_lock, contexts, uploads, run, _store, clock, last_use, seed, previous, request, response>>

\* taxonomy.normalize_skill(r) for the r a call of it has returned
NormalizeAgain ==
  /\ call.op = "normalize_skill"
  /\ previous.op = "idle"
  /\ previous' = call
  /\ call' = [op |-> "normalize_skill", skill |-> call.result,
              result |-> normalize_skill[call.result]]
  /\ UNCHANGED <<cache, worker, environ, _key_lock, contexts, uploads, run, _store, clock, last_use, seed, request, response>>
\* inputs of fuzzy_match_skill
MatchInputs ==
  {<<"r", "e", "a", "c", "t", "j", "s">>,
   <<"K", "8", "s">>,
   <<"p", "y">>,
   <<"P", "y", "t", "h", "o", "n">>,
   <<"j", "a", "v", "a", "s", "c", "r", "p", "t">>,
   <<"g", "i", "t", "b">>,
   <<"g", "i", "t", "h", "b">>,
   <<"a", "w", "s", " ", "x">>,
   <<"p", "o", "s", "t", "g", "r", "e", "s", " ", "s", "q", "l">>,
   <<"z", "z", "z">>,
   <<" ">>,
   <<>>}

\* 0.6 is the default threshold
Thresholds == {F0_6, F0_7, F0_9}

\* taxonomy.fuzzy_match_skill(skill, threshold) in process p
Match(p, skill, threshold) ==
  /\ Quiet
  /\ \E h \in SeedsOf(p) :
       /\ seed' = [seed EXCEPT ![p] = Some(h)]
       /\ call' = [op |-> "fuzzy_match_skill", proc |-> p, skill |-> skill,
                   threshold |-> threshold,
                   path |-> MatchPath[skill, threshold, h],
                   result |-> fuzzy_match_skill[skill, threshold, h]]
  /\ UNCHANGED <<cache, worker, environ, _key_lock, contexts, uploads, run, _store, clock, last_use, previous, request, response>>

MaxSkills == 3

\* the entries of the lists given to validate_and_match_skills: a canonical
\* name, the same in another letter case, a misspelt one, an unknown one
\* and a blank one
SkillPool ==
  {<<"p", "y", "t", "h", "o", "n">>,
   <<"P", "y", "t", "h", "o", "n", " ">>,
   <<"j", "a", "v", "a", "s", "c", "r", "p", "t">>,
   <<" ", "z", "z", "z">>,
   <<" ">>}

SkillLists == UNION {[1..n -> SkillPool] : n \in 0..MaxSkills}

\* taxonomy.validate_and_match_skills(skills) in process p
ValidateAndMatch(p, skills) ==
  /\ Quiet
  /\ \E h \in SeedsOf(p) :
       \E result \in {validate_and_match_skills[skills, h]} :
         /\ seed' = [seed EXCEPT ![p] = Some(h)]
         /\ call' = [op |-> "validate_and_match_skills", proc |-> p,
                     skills |-> skills,
                     matched |-> result[1], unmatched |-> result[2]]
  /\ UNCHANGED <<cache, worker, environ, _key_lock, contexts, uploads, run, _store, clock, last_use, previous, request, response>>

\* the server is restarted: what the calls returned is dropped, and each
\* process draws a hash seed again when it starts
Restart ==
  /\ ~Quiet \/ cache # <<>>
  /\ seed' = [p \in Procs |-> None]
  /\ call' = Idle
  /\ previous' = Idle
  /\ request' = None
  /\ response' = [p \in Procs |-> None]
  /\ cache' = <<>>
  /\ worker' = [t \in Threads |-> Resting]
  /\ environ' = Unset
  /\ _key_lock' = Unlocked
  /\ contexts' = [c \in Contexts |-> NoContext]
  /\ run' = NoRun
  /\ _store' = <<>>
  /\ clock' = 0
  /\ last_use' = <<>>
  /\ UNCHANGED uploads

Next ==
  \/ \E skill \in NormalizeInputs : Normalize(skill)
  \/ NormalizeAgain
  \/ \E p \in Procs, skill \in MatchInputs, threshold \in Thresholds :
       Match(p, skill, threshold)
  \/ \E p \in Procs, skills \in SkillLists : ValidateAndMatch(p, skills)
  \/ Restart

Spec == Init /\ [][Next]_vars

(***************************************************************************)
(* Properties of the taxonomy                                              *)
(***************************************************************************)
Normalized == call.op = "normalize_skill"
Matched    == call.op = "fuzzy_match_skill"
Validated  == call.op = "validate_and_match_skills"

\* C3: normalize is idempotent: normalizing what a call of normalize has
\* returned returns it unchanged
C3_NormalizeIdempotent ==
  (Normalized /\ previous.op = "normalize_skill")
    => call.result = previous.result

\* the canonical skills whose alias set lists the variant, in any letter case
Owners(variant) ==
  {_skill_aliases[i].skill : i \in {j \in 1..Len(_skill_aliases) :
     \E a \in _skill_aliases[j].aliases : lower[a] = lower[variant]}}

\* C4: an input whose cleaned form is a listed alias and no canonical name
\* is matched at threshold 0.7 first with the alias's canonical skill, with
\* match_type "alias" and confidence 0.95
C4_AliasMatchedAsAlias ==
  (/\ Matched
   /\ call.threshold = F0_7
   /\ clean_skill[call.skill] \in DOMAIN _alias_to_skill
   /\ clean_skill[call.skill] \notin _normalized_skills)
    => /\ call.result # <<>>
       /\ call.result[1].normalized \in Owners(clean_skill[call.skill])
       /\ call.result[1].match_type = "alias"
       /\ call.result[1].confidence = F0_95

\* C5: a variant listed in the alias set of a canonical skill c, in any
\* letter case, is normalized to c
C5_VariantNormalizedToOwner ==
  Normalized => \A c \in Owners(call.skill) : call.result = c

\* the seed of the process that served the call
CallSeed == seed[call.proc][1]

\* the entry consists of white space only
Blank(entry) == \A j \in 1..Len(entry) : entry[j] \in Whitespace

\* the first position of the entry in the list
FirstIndex(skills, entry) ==
  CHOOSE i \in 1..Len(skills) :
    skills[i] = entry /\ \A j \in 1..(i - 1) : skills[j] # entry

\* the unmatched texts are in the order of the input
UnmatchedInInputOrder ==
  \A a, b \in 1..Len(call.unmatched) :
    a < b => \E i, j \in 1..Len(call.skills) :
               /\ i < j
               /\ strip[call.skills[i]] = call.unmatched[a]
               /\ strip[call.skills[j]] = call.unmatched[b]

KeepsBestMatches(best) ==
  LET Kept(i)  == best[i] # <<>> /\ FGe[best[i][1].confidence, F0_7]
      kept     == {i \in DOMAIN best : Kept(i)}
      rest     == DOMAIN best \ kept
      First(n) == CHOOSE i \in kept :
                    /\ best[i][1].normalized = n
                    /\ \A j \in kept : best[j][1].normalized = n => i <= j
  IN  /\ \A i \in kept :
           Cardinality({k \in 1..Len(call.matched) :
              call.matched[k].normalized = best[i][1].normalized}) = 1
      /\ \A k \in 1..Len(call.matched) :
           /\ \E i \in kept : best[i][1].normalized = call.matched[k].normalized
           /\ call.matched[k] = best[First(call.matched[k].normalized)][1]
           /\ FGe[call.matched[k].confidence, F0_7]
      /\ Len(call.unmatched) = Cardinality(rest)
      /\ Range(call.unmatched) = {strip[call.skills[i]] : i \in rest}
      /\ \A i \in kept : strip[call.skills[i]] \notin Range(call.unmatched)

\* C9: validate_and_match_skills skips the blank entries; an entry whose
\* best match at threshold 0.7 has confidence at least 0.7 has its canonical
\* name exactly once in matched, with the match of the first such entry;
\* the trimmed text of any other entry is in unmatched; no entry is in both
C9_KeepsBestMatches ==
  Validated =>
    \A best \in {[i \in {j \in 1..Len(call.skills) : ~Blank(call.skills[j])} |->
                    fuzzy_match_skill[call.skills[i], F0_7, CallSeed]]} :
      KeepsBestMatches(best)

\* two different entries resolved to one canonical name, which is matched
\* once with the first of them, and a third entry is unmatched
C9_Witness ==
  /\ Validated
  /\ Len(call.skills) = 3
  /\ call.skills[1] # call.skills[2]
  /\ normalize_skill[call.skills[1]] = normalize_skill[call.skills[2]]
  /\ Len(call.matched) = 1
  /\ call.matched[1].original = call.skills[1]
  /\ call.unmatched = <<strip[call.skills[3]]>>

\* the entries fuzzy_match_skill collected before it sorted them: those of
\* the alias and fuzzy steps and, if it was called, of find_semantic_matches
Collected ==
  IF call.path.step = "semantic"
  THEN call.path.matches
       \o find_semantic_matches[call.skill, FMax[F0_6, call.threshold], CallSeed]
  ELSE call.path.matches

\* C22: the list fuzzy_match_skill returns has at most 3 entries, no two of
\* them with the same canonical name, in non-increasing order of
\* confidence, and the entry of a canonical name is one that was found for
\* it and no entry found for that name has a higher confidence
C22_TopThreeUniqueSorted ==
  Matched =>
    /\ Len(call.result) <= 3
    /\ \A i, j \in 1..Len(call.result) :
         /\ i < j => FGe[call.result[i].confidence, call.result[j].confidence]
         /\ call.result[i].normalized = call.result[j].normalized => i = j
    /\ call.path.step \in {"fuzzy", "semantic"} =>
         \A found \in {Collected} :
           \A i \in 1..Len(call.result) :
             /\ \E k \in 1..Len(found) : found[k] = call.result[i]
             /\ \A k \in 1..Len(found) :
                  found[k].normalized = call.result[i].normalized
                    => FLe[found[k].confidence, call.result[i].confidence]

\* a canonical name was found by the fuzzy and by the semantic step, and the
\* list holds its fuzzy entry, of the higher confidence
C22_Witness ==
  /\ Matched
  /\ call.path.step = "semantic"
  /\ \E k, l \in 1..Len(Collected) :
       /\ Collected[k].match_type = "fuzzy"
       /\ Collected[l].match_type = "semantic"
       /\ Collected[k].normalized = Collected[l].normalized
       /\ FGt[Collected[k].confidence, Collected[l].confidence]
       /\ call.result = <<Collected[k]>>

\* the highest confidence of the fuzzy entries is below 0.8 (or there is none)
BestFuzzyBelow(matches) ==
  \A k \in 1..Len(matches) :
    matches[k].match_type = "fuzzy" => FLt[matches[k].confidence, F0_8]

\* C24: when fuzzy_match_skill gets past the fuzzy step it calls
\* find_semantic_matches iff it has no match yet or the highest confidence
\* of its fuzzy matches is below 0.8, and if some fuzzy match has a
\* confidence of 0.8 or more, the result holds no semantic entry
C24_SemanticOnlyWithoutGoodFuzzy ==
  (Matched /\ call.path.step \in {"fuzzy", "semantic"}) =>
    /\ call.path.step = "semantic"
         <=> (call.path.matches = <<>> \/ BestFuzzyBelow(call.path.matches))
    /\ ~BestFuzzyBelow(call.path.matches) =>
         \A i \in 1..Len(call.result) :
           call.result[i].match_type \notin {"semantic", "near_exact"}

(***************************************************************************)
(* The scoring engine.  A request holds the candidate and the job records  *)
(* the two agents extracted; each worker process that scores it returns    *)
(* its own response.                                                       *)
(***************************************************************************)
\* the job records
Jobs == <<
  \* a sales position with eight technical skills
   [required_skills |-> [technical |-> <<<<"p", "y", "t", "h", "o", "n">>, <<"r", "e", "d", "i", "s">>, <<"a", "w", "s">>, <<"d", "o", "c", "k", "e", "r">>, <<"e", "x", "c", "e", "l">>, <<"r", "e", "a", "c", "t">>, <<"l", "i", "n", "u", "x">>, <<"p", "y", "t", "e", "s", "t">>>>,
                       soft |-> <<<<"t", "e", "a", "m", "w", "o", "r", "k">>, <<"l", "e", "a", "d", "e", "r", "s", "h", "i", "p">>, <<"n", "e", "g", "o", "t", "i", "a", "t", "i", "o", "n">>>>],
    experience |-> [minimum_years |-> Some(7)],
    qualifications |-> <<>>,
    responsibilities |-> <<>>,
    languages |-> <<>>,
    seniority_level |-> Some(<<"s", "a", "l", "e", "s">>)],
  \* three technical skills of three categories and a soft skill
   [required_skills |-> [technical |-> <<<<"p", "y", "t", "h", "o", "n">>, <<"d", "o", "c", "k", "e", "r">>, <<"r", "e", "a", "c", "t">>>>,
                       soft |-> <<<<"l", "e", "a", "d", "e", "r", "s", "h", "i", "p">>>>],
    experience |-> [minimum_years |-> None],
    qualifications |-> <<>>,
    responsibilities |-> <<>>,
    languages |-> <<>>,
    seniority_level |-> None],
  \* one technical skill, written with a capital
   [required_skills |-> [technical |-> <<<<"P", "y", "t", "h", "o", "n">>>>,
                       soft |-> <<>>],
    experience |-> [minimum_years |-> None],
    qualifications |-> <<>>,
    responsibilities |-> <<>>,
    languages |-> <<>>,
    seniority_level |-> None],
  \* two skills of one category
   [required_skills |-> [technical |-> <<<<"g", "i", "t", "h", "u", "b">>, <<"g", "i", "t", "l", "a", "b">>>>,
                       soft |-> <<>>],
    experience |-> [minimum_years |-> Some(5)],
    qualifications |-> <<>>,
    responsibilities |-> <<>>,
    languages |-> <<>>,
    seniority_level |-> None],
  \* nothing is required
   [required_skills |-> [technical |-> <<>>,
                       soft |-> <<>>],
    experience |-> [minimum_years |-> None],
    qualifications |-> <<>>,
    responsibilities |-> <<>>,
    languages |-> <<>>,
    seniority_level |-> None],
  \* a technical skill that resolves to no canonical name, and 0 years
   [required_skills |-> [technical |-> <<<<"q", "q">>>>,
                       soft |-> <<>>],
    experience |-> [minimum_years |-> Some(0)],
    qualifications |-> <<>>,
    responsibilities |-> <<>>,
    languages |-> <<>>,
    seniority_level |-> None],
  \* requirements of every kind
   [required_skills |-> [technical |-> <<<<"p", "y", "t", "h", "o", "n">>, <<"j", "a", "v", "a">>, <<"d", "o", "c", "k", "e", "r">>>>,
                       soft |-> <<<<"t", "e", "a", "m", "w", "o", "r", "k">>, <<"l", "e", "a", "d", "e", "r", "s", "h", "i", "p">>>>],
    experience |-> [minimum_years |-> Some(3)],
    qualifications |-> <<<<"p", "m", "p">>>>,
    responsibilities |-> <<<<"c", "o", "d", "e", " ", "r", "e", "v", "i", "e", "w">>, <<"m", "e", "n", "t", "o", "r", "i", "n", "g">>, <<"e", "n", "g", "l", "i", "s", "h">>, <<"p", "l", "a", "n", "n", "i", "n", "g">>>>,
    languages |-> <<<<"E", "n", "g", "l", "i", "s", "h">>, <<"G", "e", "r", "m", "a", "n">>>>,
    seniority_level |-> Some(<<"s", "e", "n", "i", "o", "r", " ", "e", "n", "g", "i", "n", "e", "e", "r">>)]
>>

\* the candidate records
CVs == <<
  \* four years, two technical and two soft skills
   [key_information |->
     [experience_summary |-> <<"4", " ", "y", "e", "a", "r", "s", " ", "o", "f", " ", "e", "x", "p", "e", "r", "i", "e", "n", "c", "e">>,
      technical_skills |-> <<<<"p", "y", "t", "h", "o", "n">>, <<"m", "y", "s", "q", "l">>>>,
      soft_skills |-> <<<<"t", "e", "a", "m", "w", "o", "r", "k">>, <<"l", "e", "a", "d", "e", "r", "s", "h", "i", "p">>>>,
      certifications |-> <<>>,
      languages |-> <<>>,
      responsibilities |-> <<>>]],
  \* no year phrase and no skill but one
   [key_information |->
     [experience_summary |-> <<"w", "o", "r", "k", "e", "d", " ", "o", "n", " ", "w", "e", "b", " ", "s", "h", "o", "p", "s">>,
      technical_skills |-> <<<<"p", "y", "t", "h", "o", "n">>>>,
      soft_skills |-> <<>>,
      certifications |-> <<>>,
      languages |-> <<>>,
      responsibilities |-> <<>>]],
  \* the skills of one category, in another order
   [key_information |->
     [experience_summary |-> <<"o", "v", "e", "r", " ", "6", " ", "y", "e", "a", "r", "s", " ", "i", "n", " ", "d", "e", "v", "e", "l", "o", "p", "m", "e", "n", "t">>,
      technical_skills |-> <<<<"g", "i", "t", "l", "a", "b">>, <<"g", "i", "t", "h", "u", "b">>, <<"P", "y", "t", "h", "o", "n">>>>,
      soft_skills |-> <<>>,
      certifications |-> <<>>,
      languages |-> <<>>,
      responsibilities |-> <<>>]],
  \* matches of every kind, more than ten of them
   [key_information |->
     [experience_summary |-> <<"1", "0", "+", " ", "y", "e", "a", "r", "s", " ", "e", "x", "p", "e", "r", "i", "e", "n", "c", "e">>,
      technical_skills |-> <<<<"a", "w", "s">>, <<"d", "o", "c", "k", "e", "r">>, <<"j", "a", "v", "a">>, <<"p", "y", "t", "h", "o", "n">>>>,
      soft_skills |-> <<<<"T", "e", "a", "m", "w", "o", "r", "k">>, <<"l", "e", "a", "d", "e", "r", "s", "h", "i", "p", " ">>, <<"c", "o", "m", "m", "u", "n", "i", "c", "a", "t", "i", "o", "n">>>>,
      certifications |-> <<<<"P", "M", "P">>, <<"A", "W", "S", " ", "C", "l", "o", "u", "d", " ", "P", "r", "a", "c", "t", "i", "t", "i", "o", "n", "e", "r">>>>,
      languages |-> <<<<"e", "n", "g", "l", "i", "s", "h">>, <<"g", "e", "r", "m", "a", "n", " ">>>>,
      responsibilities |-> <<<<"C", "o", "d", "e", " ", "r", "e", "v", "i", "e", "w">>, <<"m", "e", "n", "t", "o", "r", "i", "n", "g">>, <<"E", "n", "g", "l", "i", "s", "h">>, <<"P", "l", "a", "n", "n", "i", "n", "g", " ">>>>]],
  \* two years and no technical skill
   [key_information |->
     [experience_summary |-> <<"2", " ", "y", "e", "a", "r", "s", " ", "o", "f", " ", "e", "x", "p", "e", "r", "i", "e", "n", "c", "e">>,
      technical_skills |-> <<>>,
      soft_skills |-> <<<<"t", "e", "a", "m", "w", "o", "r", "k">>>>,
      certifications |-> <<>>,
      languages |-> <<>>,
      responsibilities |-> <<>>]]
>>

\* scoring_engine.calculate_weighted_score(cv_analysis, job_requirements)
\* is asked for
Submit(cv_analysis, job_requirements) ==
  /\ Quiet
  /\ request' = Some([cv_analysis |-> cv_analysis,
                      job_requirements |-> job_requirements])
  /\ UNCHANGED <<cache, worker, environ, _key_lock, contexts, uploads, run, _store, clock, last_use, seed, call, previous, response>>

\* process p serves the request
Score(p) ==
  /\ request # None
  /\ response[p] = None
  /\ \E h \in SeedsOf(p) :
       /\ seed' = [seed EXCEPT ![p] = Some(h)]
       /\ response' = [response EXCEPT ![p] =
            Some(calculate_weighted_score(request[1].cv_analysis,
                                          request[1].job_requirements, h))]
  /\ UNCHANGED <<cache, worker, environ, _key_lock, contexts, uploads, run, _store, clock, last_use, call, previous, request>>

\* experience summaries
Summaries ==
  {<<"0", " ", "y", "e", "a", "r", "s", " ", "o", "f", " ", "e", "x", "p", "e", "r", "i", "e", "n", "c", "e">>,
   <<"1", " ", "y", "e", "a", "r", "s", " ", "o", "f", " ", "e", "x", "p", "e", "r", "i", "e", "n", "c", "e">>,
   <<"2", " ", "y", "e", "a", "r", "s", " ", "o", "f", " ", "e", "x", "p", "e", "r", "i", "e", "n", "c", "e">>,
   <<"3", " ", "y", "e", "a", "r", "s", " ", "o", "f", " ", "e", "x", "p", "e", "r", "i", "e", "n", "c", "e">>,
   <<"4", " ", "y", "e", "a", "r", "s", " ", "o", "f", " ", "e", "x", "p", "e", "r", "i", "e", "n", "c", "e">>,
   <<"5", " ", "y", "e", "a", "r", "s", " ", "o", "f", " ", "e", "x", "p", "e", "r", "i", "e", "n", "c", "e">>,
   <<"6", " ", "y", "e", "a", "r", "s", " ", "o", "f", " ", "e", "x", "p", "e", "r", "i", "e", "n", "c", "e">>,
   <<"7", " ", "y", "e", "a", "r", "s", " ", "o", "f", " ", "e", "x", "p", "e", "r", "i", "e", "n", "c", "e">>,
   <<"8", " ", "y", "e", "a", "r", "s", " ", "o", "f", " ", "e", "x", "p", "e", "r", "i", "e", "n", "c", "e">>,
   <<"9", " ", "y", "e", "a", "r", "s", " ", "o", "f", " ", "e", "x", "p", "e", "r", "i", "e", "n", "c", "e">>,
   <<"1", "0", " ", "y", "e", "a", "r", "s", " ", "o", "f", " ", "e", "x", "p", "e", "r", "i", "e", "n", "c", "e">>,
   <<"1", "1", " ", "y", "e", "a", "r", "s", " ", "o", "f", " ", "e", "x", "p", "e", "r", "i", "e", "n", "c", "e">>,
   <<"1", "2", " ", "y", "e", "a", "r", "s", " ", "o", "f", " ", "e", "x", "p", "e", "r", "i", "e", "n", "c", "e">>,
   <<"w", "o", "r", "k", "e", "d", " ", "o", "n", " ", "w", "e", "b", " ", "s", "h", "o", "p", "s">>,
   <<"o", "v", "e", "r", " ", "6", " ", "y", "e", "a", "r", "s", " ", "i", "n", " ", "d", "e", "v", "e", "l", "o", "p", "m", "e", "n", "t">>,
   <<"3", " ", "y", "e", "a", "r", "s", " ", "e", "x", "p", "e", "r", "i", "e", "n", "c", "e">>,
   <<"m", "o", "r", "e", " ", "t", "h", "a", "n", " ", "9", " ", "y", "e", "a", "r", "s", ",", " ", "2", "+", " ", "y", "e", "a", "r", "s", " ", "i", "n", " ", "s", "a", "l", "e", "s">>}

MaxYears == 10

\* the confidences dict of the job: none, or one for the experience
ExperienceConfidences ==
  {NoConfidences, [experience |-> F0_6], [experience |-> F1_0]}

\* scoring_engine.calculate_experience_score(cv_analysis, job_requirements,
\* job_confidences) for a candidate with the summary and a job with the
\* minimum years
ExperienceScore(experience_summary, minimum_years, job_confidences) ==
  /\ Quiet
  /\ call' = [op |-> "calculate_experience_score",
              experience_summary |-> experience_summary,
              minimum_years |-> minimum_years,
              job_confidences |-> job_confidences,
              result |-> calculate_experience_score(
                [key_information |-> [experience_summary |-> experience_summary]],
                [experience |-> [minimum_years |-> Some(minimum_years)]],
                job_confidences)]
  /\ UNCHANGED <<cache, worker, environ, _key_lock, contexts, uploads, run, _store, clock, last_use, seed, previous, request, response>>

\* jobs whose texts name keywords of no, one or several industries
IndustryJobs ==
  {[required_skills |-> [technical |-> <<>>,
                       soft |-> <<>>],
    experience |-> [minimum_years |-> None],
    qualifications |-> <<>>,
    responsibilities |-> <<<<"b", "u", "i", "l", "d", " ", "b", "a", "c", "k", "e", "n", "d", " ", "s", "e", "r", "v", "i", "c", "e", "s">>>>,
    languages |-> <<>>,
    seniority_level |-> None],
   [required_skills |-> [technical |-> <<>>,
                       soft |-> <<>>],
    experience |-> [minimum_years |-> None],
    qualifications |-> <<>>,
    responsibilities |-> <<<<"o", "w", "n", " ", "t", "h", "e", " ", "r", "o", "a", "d", "m", "a", "p">>, <<"w", "o", "r", "k", " ", "w", "i", "t", "h", " ", "s", "a", "l", "e", "s">>>>,
    languages |-> <<>>,
    seniority_level |-> None],
   [required_skills |-> [technical |-> <<>>,
                       soft |-> <<>>],
    experience |-> [minimum_years |-> None],
    qualifications |-> <<>>,
    responsibilities |-> <<<<"e", "m", "a", "i", "l", " ", "c", "a", "m", "p", "a", "i", "g", "n", "s", " ", "f", "o", "r", " ", "c", "l", "i", "e", "n", "t", "s">>>>,
    languages |-> <<>>,
    seniority_level |-> None],
   [required_skills |-> [technical |-> <<<<"p", "y", "t", "h", "o", "n">>, <<"s", "q", "l">>>>,
                       soft |-> <<>>],
    experience |-> [minimum_years |-> None],
    qualifications |-> <<>>,
    responsibilities |-> <<>>,
    languages |-> <<>>,
    seniority_level |-> None],
   [required_skills |-> [technical |-> <<>>,
                       soft |-> <<>>],
    experience |-> [minimum_years |-> None],
    qualifications |-> <<>>,
    responsibilities |-> <<>>,
    languages |-> <<>>,
    seniority_level |-> Some(<<"S", "e", "n", "i", "o", "r", " ", "S", "o", "f", "t", "w", "a", "r", "e", " ", "E", "n", "g", "i", "n", "e", "e", "r">>)],
   [required_skills |-> [technical |-> <<<<"a", "n", "a", "l", "y", "t", "i", "c", "s">>>>,
                       soft |-> <<>>],
    experience |-> [minimum_years |-> None],
    qualifications |-> <<>>,
    responsibilities |-> <<<<"s", "e", "o", " ", "a", "n", "d", " ", "c", "o", "n", "t", "e", "n", "t">>, <<"c", "r", "m">>>>,
    languages |-> <<>>,
    seniority_level |-> Some(<<"m", "a", "r", "k", "e", "t", "i", "n", "g", " ", "l", "e", "a", "d">>)],
   [required_skills |-> [technical |-> <<<<"m", "l">>, <<"e", "t", "l">>, <<"a", "i">>>>,
                       soft |-> <<>>],
    experience |-> [minimum_years |-> None],
    qualifications |-> <<>>,
    responsibilities |-> <<<<"s", "a", "l", "e", "s", " ", "p", "i", "p", "e", "l", "i", "n", "e", " ", "a", "n", "d", " ", "q", "u", "o", "t", "a">>>>,
    languages |-> <<>>,
    seniority_level |-> None],
   [required_skills |-> [technical |-> <<<<"c", "r", "m">>, <<"c", "l", "i", "e", "n", "t", " ", "r", "e", "v", "e", "n", "u", "e">>>>,
                       soft |-> <<>>],
    experience |-> [minimum_years |-> None],
    qualifications |-> <<>>,
    responsibilities |-> <<<<"b", "r", "a", "n", "d", " ", "g", "r", "o", "w", "t", "h">>>>,
    languages |-> <<>>,
    seniority_level |-> Some(<<"S", "a", "l", "e", "s">>)],
   [required_skills |-> [technical |-> <<>>,
                       soft |-> <<>>],
    experience |-> [minimum_years |-> None],
    qualifications |-> <<>>,
    responsibilities |-> <<<<>>>>,
    languages |-> <<>>,
    seniority_level |-> Some(<<>>)]}

\* scoring_engine.infer_industry(job_requirements)
InferIndustry(job_requirements) ==
  /\ Quiet
  /\ call' = [op |-> "infer_industry", job_requirements |-> job_requirements,
              result |-> infer_industry(job_requirements)]
  /\ UNCHANGED <<cache, worker, environ, _key_lock, contexts, uploads, run, _store, clock, last_use, seed, previous, request, response>>

NextScoring ==
  \/ \E c \in 1..Len(CVs), j \in 1..Len(Jobs) : Submit(CVs[c], Jobs[j])
  \/ \E p \in Procs : Score(p)
  \/ \E experience_summary \in Summaries, minimum_years \in 1..MaxYears,
        job_confidences \in ExperienceConfidences :
       ExperienceScore(experience_summary, minimum_years, job_confidences)
  \/ \E job_requirements \in IndustryJobs \cup Range(Jobs) :
       InferIndustry(job_requirements)
  \/ Restart

SpecScoring == Init /\ [][NextScoring]_vars

(***************************************************************************)
(* Properties of the scoring engine                                        *)
(***************************************************************************)
\* process p has answered the request
Scored(p) == request # None /\ response[p] # None

\* the call raised no error and returned a MatchingScore
Returned(p) == Scored(p) /\ "overall_match_score" \in DOMAIN response[p][1]

\* the weights of WEIGHTING_PROFILES in hundredths: technical, soft,
\* experience, qualifications, responsibilities
WeightPercents ==
  [software_engineering |-> <<40, 10, 30, 10, 10>>,
   data_science         |-> <<35, 15, 25, 15, 10>>,
   product_management   |-> <<15, 30, 25, 10, 20>>,
   sales                |-> <<5, 40, 30, 10, 15>>,
   marketing            |-> <<20, 25, 25, 10, 20>>,
   default              |-> <<30, 15, 25, 15, 15>>]

\* the five dimension scores of a MatchingScore, in the order of the weights
DimensionScores(r) ==
  <<r.technical_skills_score, r.soft_skills_score, r.experience_score,
    r.qualifications_score, r.key_responsibilities_score>>

\* floor(sum of weight_i * score_i), the weights in hundredths
FloorOfWeighted(percents, scores) ==
  (percents[1] * scores[1] + percents[2] * scores[2] + percents[3] * scores[3]
   + percents[4] * scores[4] + percents[5] * scores[5]) \div 100

\* C1: calculate_weighted_score returns the overall score and the five
\* dimension scores as integers of 0..100, and the overall score is
\* floor(sum of weight_i * score_i) for the profile of infer_industry(job),
\* the default profile when the industry has none
C1_OverallIsFloorOfWeightedSum ==
  \A p \in Procs : Scored(p) =>
    /\ Returned(p)
    /\ \A i \in 1..5 : DimensionScores(response[p][1])[i] \in 0..100
    /\ response[p][1].overall_match_score \in 0..100
    /\ \A industry \in {infer_industry(request[1].job_requirements)} :
         response[p][1].overall_match_score =
           FloorOfWeighted(IF industry \in DOMAIN WeightPercents
                           THEN WeightPercents[industry]
                           ELSE WeightPercents["default"],
                           DimensionScores(response[p][1]))

\* s is an integer nearest to n / d
NearestInteger(s, n, d) == 2 * (s * d - n) <= d /\ 2 * (n - s * d) <= d

\* the number of additions of 0.3 that made the related bonus
RelatedOf(explanation) ==
  CHOOSE n \in 0..explanation.total_required :
    RelatedBonus(n) = explanation.related_bonus

\* C2: when a required technical skill resolves to a canonical name, the
\* technical score is round(min(100, 100 * (base * c + 0.7 * (1 - c)))) with
\* base = (matchCount + 0.3 * related) / totalRequired and c = 0.8, the job
\* having no confidences: 100 * (...) is ((10m + 3r) * 8 + 14T) / T
C2_TechnicalScoreIsRounded ==
  \A p \in Procs :
    (Returned(p) /\ response[p][1].technical_skills_explanation.total_required > 0)
      => \A e \in {response[p][1].technical_skills_explanation} :
           \A n \in {(10 * e.match_count + 3 * RelatedOf(e)) * 8
                     + 14 * e.total_required} :
             IF n >= 100 * e.total_required
             THEN response[p][1].technical_skills_score = 100
             ELSE NearestInteger(response[p][1].technical_skills_score, n,
                                 e.total_required)

StrongOverallProfile ==
  <<<<"S", "t", "r", "o", "n", "g", " ", "o", "v", "e", "r", "a", "l", "l", " ", "p", "r", "o", "f", "i", "l", "e">>>>

\* the candidate of the request covers every requirement of the job, the
\* experience score being that of the response of process p
CoversEverything(p) ==
  LET cv  == request[1].cv_analysis.key_information
      job == request[1].job_requirements
      r   == response[p][1]
  IN  /\ r.technical_skills_explanation.match_count
           = r.technical_skills_explanation.total_required
      /\ LowerStripSet(job.required_skills.soft) \subseteq LowerStripSet(cv.soft_skills)
      /\ {_norm_cert(q) : q \in Range(job.qualifications)}
           \subseteq {_norm_cert(q) : q \in Range(cv.certifications)}
      /\ LowerStripSet(job.languages) \subseteq LowerStripSet(cv.languages)
      /\ LowerStripSet(job.responsibilities) \subseteq LowerStripSet(cv.responsibilities)
      /\ r.experience_score >= 70 \/ job.experience.minimum_years = None

\* C6: when the candidate covers every requirement of the job,
\* improvement_suggestions is the single entry "Strong overall profile"
C6_NothingMissingIsStrongProfile ==
  \A p \in Procs :
    (Returned(p) /\ CoversEverything(p))
      => response[p][1].improvement_suggestions = StrongOverallProfile

\* C7: improvement_suggestions holds exactly one sentence, and a required
\* soft skill that is absent from the candidate's soft skills is listed in
\* it, title-cased, whenever fewer than 3 technical skills are missing
C7_MissingSoftSkillListed ==
  \A p \in Procs : Returned(p) =>
    /\ Len(response[p][1].improvement_suggestions) = 1
    /\ \A e \in {response[p][1].technical_skills_explanation} :
         \A s \in Range(request[1].job_requirements.required_skills.soft) :
           (/\ e.total_required - e.match_count < 3
            /\ strip[lower[s]] \notin
                 LowerStripSet(request[1].cv_analysis.key_information.soft_skills))
             => Contains(response[p][1].improvement_suggestions[1], title[s])

\* C10: two calls of calculate_weighted_score with the same candidate and
\* job records, in the same process or in two, return identical records
C10_ScoringDeterministic ==
  \A p, q \in Procs :
    (Scored(p) /\ Scored(q)) => response[p] = response[q]

ExperienceScored == call.op = "calculate_experience_score"

\* the score calculate_experience_score returns for the summary, the job
\* and the confidences of the call being those of the state
ScoreForSummary(experience_summary) ==
  calculate_experience_score(
    [key_information |-> [experience_summary |-> experience_summary]],
    [experience |-> [minimum_years |-> Some(call.minimum_years)]],
    call.job_confidences).score

\* C12: for a minimum R > 0 and a fixed confidence, a candidate with at
\* least as many extracted years gets at least the experience score
C12_ExperienceMonotone ==
  ExperienceScored =>
    \A other \in Summaries :
      ExtractYears(other) >= ExtractYears(call.experience_summary)
        => ScoreForSummary(other) >= call.result.score

\* a candidate below 80% of the minimum was scored, and the summaries hold
\* candidates of the two other branches
C12_Witness ==
  /\ ExperienceScored
  /\ call.minimum_years = 10
  /\ ExtractYears(call.experience_summary) = 7
  /\ \E close, meets \in Summaries :
       ExtractYears(close) = 9 /\ ExtractYears(meets) = 12

\* the confidence of the call in tenths
ConfidenceTenths ==
  IF "experience" \notin DOMAIN call.job_confidences THEN 8
  ELSE IF call.job_confidences["experience"] = F0_6 THEN 6
  ELSE 10

\* the score before blending that C13 gives for Y years and a minimum R
PreBlend(Y, R) ==
  IF Y >= R THEN Min(100, 80 + 5 * (Y - R))
  ELSE IF 5 * Y >= 4 * R THEN 70 + ((10 * Y) \div R)
  ELSE Max(30, (60 * Y) \div R)

\* C13: for a minimum R > 0 and Y extracted years the score before blending
\* is min(100, 80 + 5(Y - R)) if Y >= R, 70 + floor(10Y/R) if 0.8R <= Y < R,
\* else max(30, floor(60Y/R)), and the score returned is
\* floor(score * c + 70 * (1 - c)), c being 0.8 by default
C13_ExperienceFormula ==
  ExperienceScored =>
    call.result.score =
      (PreBlend(ExtractYears(call.experience_summary), call.minimum_years)
         * ConfidenceTenths + 70 * (10 - ConfidenceTenths)) \div 10

\* R = 5 and "3 years experience": 36 before blending, 42 returned
C13_Witness ==
  /\ ExperienceScored
  /\ call.minimum_years = 5
  /\ call.experience_summary = <<"3", " ", "y", "e", "a", "r", "s", " ", "e", "x", "p", "e", "r", "i", "e", "n", "c", "e">>
  /\ call.job_confidences = NoConfidences
  /\ PreBlend(3, 5) = 36
  /\ call.result.score = 42

\* component scores greater than 0, the lowest ones among them
ComponentScores == {1, 2, 100}

\* the profile of an industry
ProfileOf(industry) ==
  IF industry \in DOMAIN WEIGHTING_PROFILES
  THEN WEIGHTING_PROFILES[industry] ELSE WEIGHTING_PROFILES["default"]

\* C14: for the profile of every industry and five component scores greater
\* than 0 the overall score is greater than 0, and calculate_weighted_score
\* never returns overall_match_score 0 with five positive dimension scores
C14_PositiveScoresPositiveOverall ==
  /\ call.op = "infer_industry" =>
       \A scores \in [1..5 -> ComponentScores] :
         WeightedSum(ProfileOf(call.result), scores[1], scores[2], scores[3],
                     scores[4], scores[5]) > 0
  /\ \A p \in Procs :
       (Returned(p) /\ \A i \in 1..5 : DimensionScores(response[p][1])[i] > 0)
         => response[p][1].overall_match_score > 0

\* a profile other than the default one was selected
C14_Witness ==
  /\ call.op = "infer_industry"
  /\ call.result = "sales"
  /\ WeightedSum(ProfileOf(call.result), 1, 1, 1, 1, 1) = 1

\* the number of keywords of pattern i in the lowercased texts of the job
KeywordCount(job, i) ==
  Cardinality({k \in industry_patterns[i].keywords :
     Contains(lower[Join(TextFields(job), <<" ">>)], k)})

\* C15: infer_industry returns the industry with the most keywords in the
\* lowercased texts, the first declared one of those with the highest count,
\* and "default" when no keyword occurs
C15_IndustryOfMostKeywords ==
  call.op = "infer_industry" =>
    \A count \in {[i \in 1..Len(industry_patterns) |->
                     KeywordCount(call.job_requirements, i)]} :
      IF \A i \in DOMAIN count : count[i] = 0
      THEN call.result = "default"
      ELSE \E i \in DOMAIN count :
             /\ call.result = industry_patterns[i].industry
             /\ \A j \in DOMAIN count : count[j] <= count[i]
             /\ \A j \in 1..(i - 1) : count[j] < count[i]

\* two industries tie for the highest count
C15_Witness ==
  /\ call.op = "infer_industry"
  /\ call.result = "data_science"
  /\ KeywordCount(call.job_requirements, 2) = 3
  /\ KeywordCount(call.job_requirements, 4) = 3

\* the items of the sequence that are not empty, each at its first place
KeepFirst(seq) ==
  LET Kept(i) == seq[i] # <<>> /\ \A j \in 1..(i - 1) : seq[j] # seq[i]
      kept    == SelectSeq([i \in 1..Len(seq) |-> i], Kept)
  IN  [k \in 1..Len(kept) |-> seq[kept[k]]]

\* the canonical names both of the candidate's and of the job's skills
DirectMatches(cv_skills, job_skills, h) ==
  IF job_skills = <<>> THEN {}
  ELSE NormalizedOf(validate_and_match_skills[cv_skills, h][1])
       \cap NormalizedOf(validate_and_match_skills[job_skills, h][1])

\* the matches that follow the technical ones in strengths
OtherMatches(cv, job) ==
  TitleAll(SortedStrs(LowerStripSet(cv.soft_skills)
                      \cap LowerStripSet(job.required_skills.soft)))
  \o TitleAll(SortedStrs({_norm_cert(q) : q \in Range(cv.certifications)}
                         \cap {_norm_cert(q) : q \in Range(job.qualifications)}))
  \o SortedStrs(LowerStripSet(cv.languages) \cap LowerStripSet(job.languages))
  \o SortedStrs(LowerStripSet(cv.responsibilities)
                \cap LowerStripSet(job.responsibilities))

\* strengths begins with the technical matches and is the first 10 items of
\* the concatenation without empty items and later duplicates
StrengthsAsSpecified(strengths, technical, cv, job) ==
  \E first \in {SubSeq(strengths, 1, Min(Len(strengths), Cardinality(technical)))} :
    /\ Cardinality(technical) <= 10 => Range(first) = technical
    /\ strengths = Take(KeepFirst(first \o OtherMatches(cv, job)), 10)
    /\ Len(strengths) <= 10
    /\ \A i, j \in 1..Len(strengths) : i # j => strengths[i] # strengths[j]
    /\ \A i \in 1..Len(strengths) : strengths[i] # <<>>

\* C16: strengths is the concatenation of the technical, soft skill,
\* qualification, language and responsibility matches, in this order,
\* without the later duplicates, cut to its first 10 entries; it holds no
\* duplicate, no empty entry and at most 10 entries
C16_StrengthsConcatenated ==
  \A p \in Procs : Returned(p) =>
    StrengthsAsSpecified(
      response[p][1].strengths,
      DirectMatches(request[1].cv_analysis.key_information.technical_skills,
                    request[1].job_requirements.required_skills.technical,
                    seed[p][1]),
      request[1].cv_analysis.key_information,
      request[1].job_requirements)

\* more than 10 matches, a language among them that is a responsibility too
C16_Witness ==
  \E p \in Procs :
    /\ Returned(p)
    /\ Len(response[p][1].strengths) = 10
    /\ Len(KeepFirst(SubSeq(response[p][1].strengths, 1,
                            response[p][1].technical_skills_explanation.match_count)
                     \o OtherMatches(request[1].cv_analysis.key_information,
                                     request[1].job_requirements))) > 10
    /\ \E l \in LowerStripSet(request[1].job_requirements.languages) :
         l \in LowerStripSet(request[1].job_requirements.responsibilities)

\* the summary holds no digit, hence no year phrase
NoYearPhrase(experience_summary) ==
  \A i \in 1..Len(experience_summary) : experience_summary[i] \notin Digits

\* C20: calculate_weighted_score raises nothing when optional inputs are
\* missing or empty: the technical score is 85 when the job lists no
\* technical skill and 75 when none of those it lists resolves to a
\* canonical name, the soft score is 75 when the job lists no soft skill,
\* the experience score is 80 when no minimum is set, and the extracted
\* years are 0 when the summary holds no year phrase
C20_NeutralDefaults ==
  \A p \in Procs : Scored(p) =>
    \A cv \in {request[1].cv_analysis.key_information} :
      \A job \in {request[1].job_requirements} :
        /\ Returned(p)
        /\ job.required_skills.technical = <<>>
             => response[p][1].technical_skills_score = 85
        /\ (/\ job.required_skills.technical # <<>>
            /\ validate_and_match_skills[job.required_skills.technical,
                                         seed[p][1]][1] = <<>>)
             => response[p][1].technical_skills_score = 75
        /\ job.required_skills.soft = <<>>
             => response[p][1].soft_skills_score = 75
        /\ job.experience.minimum_years = None
             => response[p][1].experience_score = 80
        /\ NoYearPhrase(cv.experience_summary)
             => response[p][1].experience_explanation.cv_years = 0

\* a job that requires nothing and a candidate without a year phrase
C20_Witness ==
  \E p \in Procs :
    /\ Returned(p)
    /\ request[1].job_requirements.required_skills.technical = <<>>
    /\ request[1].job_requirements.required_skills.soft = <<>>
    /\ request[1].job_requirements.experience.minimum_years = None
    /\ NoYearPhrase(request[1].cv_analysis.key_information.experience_summary)
    /\ response[p][1].technical_skills_score = 85

(***************************************************************************)
(* The validator is called with the job requirements an agent extracted    *)
(***************************************************************************)
SeniorityLevels ==
  {None, Some(<<>>), Some(<<"J", "u", "n", "i", "o", "r">>), Some(<<"m", "i", "d", "-", "l", "e", "v", "e", "l">>), Some(<<"S", "e", "n", "i", "o", "r">>), Some(<<"p", "r", "i", "n", "c", "i", "p", "a", "l">>), Some(<<"L", "e", "a", "d", " ", "A", "r", "c", "h", "i", "t", "e", "c", "t">>), Some(<<"i", "n", "t", "e", "r", "n">>), Some(<<"P", "r", "i", "n", "c", "i", "p", "a", "l", " ", "E", "n", "g", "i", "n", "e", "e", "r">>)}

MinimumYears == {None, Some(0), Some(2), Some(4), Some(9), Some(15), Some(25)}

TechnicalLists ==
  {<<>>,
   <<<<"p", "y", "t", "h", "o", "n">>>>,
   <<<<"p", "y", "t", "h", "o", "n">>, <<"P", "y", "t", "h", "o", "n", " ">>>>,
   <<<<"s", "0">>, <<"s", "1">>, <<"s", "2">>, <<"s", "3">>, <<"s", "4">>, <<"s", "5">>, <<"s", "6">>, <<"s", "7">>, <<"s", "8">>, <<"s", "9">>, <<"s", "1", "0">>, <<"s", "1", "1">>, <<"s", "1", "2">>, <<"s", "1", "3">>, <<"s", "1", "4">>, <<"s", "1", "5">>>>,
   <<<<"s", "0">>, <<"s", "1">>, <<"s", "2">>, <<"s", "3">>, <<"s", "4">>, <<"s", "5">>, <<"s", "6">>, <<"s", "7">>, <<"s", "8">>, <<"s", "9">>, <<"s", "1", "0">>, <<"s", "1", "1">>, <<"s", "1", "2">>, <<"s", "1", "3">>, <<"s", "1", "4">>, <<"S", "0", " ">>>>}

SoftLists ==
  {<<>>, <<<<"t", "e", "a", "m", "w", "o", "r", "k">>>>, <<<<"g", "r", "i", "t">>, <<"T", "e", "a", "m", "w", "o", "r", "k">>>>, <<<<"g", "r", "i", "t">>>>}

ResponsibilityLists ==
  {<<>>, <<<<"c", "o", "d", "e", " ", "r", "e", "v", "i", "e", "w">>>>}

\* validator.validate_job_requirements(job_req)
ValidateJob(job_req) ==
  /\ Quiet
  /\ call' = [op |-> "validate_job_requirements", job_req |-> job_req,
              result |-> validate_job_requirements(job_req)]
  /\ UNCHANGED <<cache, worker, environ, _key_lock, contexts, uploads, run, _store, clock, last_use, seed, previous, request, response>>

NextValidation ==
  \/ \E seniority_level \in SeniorityLevels, minimum_years \in MinimumYears,
        technical \in TechnicalLists, soft \in SoftLists,
        responsibilities \in ResponsibilityLists :
       ValidateJob([required_skills |-> [technical |-> technical, soft |-> soft],
                    experience |-> [minimum_years |-> minimum_years],
                    qualifications |-> <<>>,
                    responsibilities |-> responsibilities,
                    languages |-> <<>>,
                    seniority_level |-> seniority_level])
  \/ Restart

SpecValidation == Init /\ [][NextValidation]_vars

(***************************************************************************)
(* Properties of the validator                                             *)
(***************************************************************************)
JobValidated == call.op = "validate_job_requirements"

\* the result reports an inconsistency of the minimum years
ExperienceIssueReported ==
  \E i \in 1..Len(call.result.issues) :
    /\ call.result.issues[i].field = "experience.minimum_years"
    /\ call.result.issues[i].issue_type = "inconsistency"
    /\ call.result.issues[i].severity = "medium"

\* C17: the seniority string "principal" names the level principal, whose
\* expected range is 8-20: validate_job_requirements reports an
\* inconsistency for such a job exactly when its minimum years are set and
\* outside 8-20, so none for a minimum of 11 to 20 years
C17_PrincipalCheckedAgainstItsRange ==
  (/\ JobValidated
   /\ call.job_req.seniority_level = Some(<<"p", "r", "i", "n", "c", "i", "p", "a", "l">>)
   /\ call.job_req.experience.minimum_years # None)
    => (ExperienceIssueReported
          <=> ~(/\ 8 <= call.job_req.experience.minimum_years[1]
                /\ call.job_req.experience.minimum_years[1] <= 20))

\* the result holds an issue of severity critical
CriticalReported ==
  \E i \in 1..Len(call.result.issues) :
    call.result.issues[i].severity = "critical"

\* C18: validate_job_requirements returns a result, with is_valid true iff
\* no issue is critical, and a job without technical and soft skills gets a
\* critical issue and is_valid false
C18_ValidIffNoCriticalIssue ==
  JobValidated =>
    /\ DOMAIN call.result = {"is_valid", "confidence_score", "issues"}
    /\ call.result.is_valid <=> ~CriticalReported
    /\ (/\ call.job_req.required_skills.technical = <<>>
        /\ call.job_req.required_skills.soft = <<>>)
         => CriticalReported /\ ~call.result.is_valid

\* a job without skills, otherwise consistent
C18_Witness ==
  /\ JobValidated
  /\ call.job_req.required_skills.technical = <<>>
  /\ call.job_req.required_skills.soft = <<>>
  /\ call.job_req.responsibilities # <<>>
  /\ Len(call.result.issues) = 1
  /\ ~call.result.is_valid

\* the number of issues of the severity
CountOf(severity) ==
  Cardinality({i \in 1..Len(call.result.issues) :
                 call.result.issues[i].severity = severity})

\* the confidence is num / 100, up to the rounding of binary arithmetic
IsHundredths(confidence, num) ==
  FTrunc[FAdd[FMul[confidence, FFromInt[1000000]], F0_5]] = num * 10000

\* C19: the confidence of validate_job_requirements is 0.3 if an issue is
\* critical, else 0.5 if more than 2 issues are high, else 0.7 if there are
\* more than 5 issues, else 0.9 - 0.05 * issueCount; it lies in [0, 1]
C19_ConfidenceBySeverity ==
  JobValidated =>
    /\ FLe[FZero, call.result.confidence_score]
    /\ FLe[call.result.confidence_score, F1_0]
    /\ IF CountOf("critical") > 0
       THEN call.result.confidence_score = F0_3
       ELSE IF CountOf("high") > 2
       THEN call.result.confidence_score = F0_5
       ELSE IF Len(call.result.issues) > 5
       THEN call.result.confidence_score = F0_7
       ELSE IsHundredths(call.result.confidence_score,
                         90 - 5 * Len(call.result.issues))

\* five issues, none of them critical
C19_Witness ==
  /\ JobValidated
  /\ Len(call.result.issues) = 5
  /\ CountOf("critical") = 0
  /\ IsHundredths(call.result.confidence_score, 65)

(***************************************************************************)
(* normalize_skill behind its lru_cache.  The threads of a process share   *)
(* the cache; the wrapper looks the key up, calls the function on a miss   *)
(* and stores the result, and another thread can run between any two of    *)
(* these steps.  lru_cache(maxsize=1000) is modelled with a smaller        *)
(* capacity, so that the cache fills and evicts.                           *)
(***************************************************************************)
maxsize == 2

\* the skills the threads normalize: more keys than the cache holds, two
\* of them with the same canonical name
CachedSkills ==
  {<<"p", "y">>,
   <<"P", "y", "t", "h", "o", "n", " ">>,
   <<"K", "8", "s">>,
   <<"z", "z", "z">>}

\* a key shared by every argument
SharedKey(skill) == <<>>

\* the cache key of a call: the argument itself
make_key(skill) == skill

\* the position of the key in the cache, 0 if it is not cached
CachedAt(key) ==
  IF \E i \in 1..Len(cache) : cache[i].key = key
  THEN CHOOSE i \in 1..Len(cache) : cache[i].key = key
  ELSE 0

\* the cache without its entry at position i
Without(i) == SubSeq(cache, 1, i - 1) \o SubSeq(cache, i + 1, Len(cache))

\* thread t calls normalize_skill(skill): a hit returns the cached result
\* and makes the entry the most recent one, a miss goes on to the function
CacheLookup(t, skill) ==
  /\ Quiet
  /\ worker[t].pc = "resting"
  /\ \E at \in {CachedAt(make_key(skill))} :
       IF at # 0
       THEN /\ cache' = Append(Without(at), cache[at])
            /\ worker' = [worker EXCEPT ![t] =
                 [pc |-> "returned", skill |-> skill,
                  result |-> cache[at].result, by |-> "hit"]]
       ELSE /\ cache' = cache
            /\ worker' = [worker EXCEPT ![t] = [pc |-> "miss", skill |-> skill]]
  /\ UNCHANGED <<seed, call, previous, request, response, environ, _key_lock, contexts, uploads, run, _store, clock, last_use>>

\* thread t runs the function itself
Compute(t) ==
  /\ worker[t].pc = "miss"
  /\ worker' = [worker EXCEPT ![t] =
       [pc |-> "computed", skill |-> worker[t].skill,
        result |-> normalize_skill[worker[t].skill]]]
  /\ UNCHANGED <<seed, call, previous, request, response, cache, environ, _key_lock, contexts, uploads, run, _store, clock, last_use>>

\* thread t stores its result and returns it: nothing is stored if the key
\* was cached meanwhile, and a full cache loses its oldest entry
CacheStore(t) ==
  /\ worker[t].pc = "computed"
  /\ \E key \in {make_key(worker[t].skill)} :
       IF CachedAt(key) # 0
       THEN /\ cache' = cache
            /\ worker' = [worker EXCEPT ![t] =
                 [pc |-> "returned", skill |-> worker[t].skill,
                  result |-> worker[t].result, by |-> "redundant"]]
       ELSE IF Len(cache) >= maxsize
       THEN /\ cache' = Append(Tail(cache), [key |-> key, result |-> worker[t].result])
            /\ worker' = [worker EXCEPT ![t] =
                 [pc |-> "returned", skill |-> worker[t].skill,
                  result |-> worker[t].result, by |-> "evicting"]]
       ELSE /\ cache' = Append(cache, [key |-> key, result |-> worker[t].result])
            /\ worker' = [worker EXCEPT ![t] =
                 [pc |-> "returned", skill |-> worker[t].skill,
                  result |-> worker[t].result, by |-> "storing"]]
  /\ UNCHANGED <<seed, call, previous, request, response, environ, _key_lock, contexts, uploads, run, _store, clock, last_use>>

\* the caller of thread t has taken the result
Done(t) ==
  /\ worker[t].pc = "returned"
  /\ worker' = [worker EXCEPT ![t] = Resting]
  /\ UNCHANGED <<seed, call, previous, request, response, cache, environ, _key_lock, contexts, uploads, run, _store, clock, last_use>>

NextCache ==
  \/ \E t \in Threads, skill \in CachedSkills : CacheLookup(t, skill)
  \/ \E t \in Threads : Compute(t)
  \/ \E t \in Threads : CacheStore(t)
  \/ \E t \in Threads : Done(t)
  \/ Restart

SpecCache == Init /\ [][NextCache]_vars

(***************************************************************************)
(* Properties of the cached normalize_skill                                *)
(***************************************************************************)
\* C11: whatever the interleaving of the threads that share the cache, a
\* call of normalize_skill returns the value the function computes for its
\* own argument: from the cache or computed, once or redundantly
C11_CachedResultIsOwn ==
  \A t \in Threads :
    worker[t].pc = "returned" =>
      /\ worker[t].result = normalize_skill[worker[t].skill]
      /\ worker[t].by \in {"hit", "storing", "evicting", "redundant"}

\* two threads missed the same key, one stored it into the full cache and
\* the other one computed it again, and both hold the same result
C11_Witness ==
  \E t, u \in Threads :
    /\ worker[t].pc = "returned" /\ worker[t].by = "evicting"
    /\ worker[u].pc = "returned" /\ worker[u].by = "redundant"
    /\ worker[t].skill = worker[u].skill
    /\ worker[t].result = worker[u].result
    /\ worker[t].result # worker[t].skill

(***************************************************************************)
(* Construction of a WeightingProfile: the dataclass sets the five fields  *)
(* and runs __post_init__, which raises ValueError unless the weights sum  *)
(* to 1.0 within 0.01.                                                     *)
(***************************************************************************)
F0_01 == [neg |-> FALSE, m |-> <<5243,3932,27525,163>>, e |-> -59]
F0_16 == [neg |-> FALSE, m |-> <<5243,3932,27525,163>>, e |-> -55]
F0_24 == [neg |-> FALSE, m |-> <<9175,31457,23592,30>>, e |-> -52]

\* the weights a profile is constructed with, by their hundredths
WeightLiterals ==
  (15 :> F0_15) @@ (16 :> F0_16) @@ (24 :> F0_24) @@ (25 :> F0_25)
    @@ (30 :> F0_3)

FAbs(x) == [x EXCEPT !.neg = FALSE]

\* total = technical + soft + experience + qualifications + responsibilities
TotalWeight(self) ==
  FAdd[FAdd[FAdd[FAdd[self.technical_skills_weight, self.soft_skills_weight],
                 self.experience_weight],
            self.qualifications_weight],
       self.responsibilities_weight]

\* a check that accepts every total
AcceptAnyTotal(total) == FALSE

\* abs(total - 1.0) > 0.01
TotalIsOff(total) == FGt[FAbs(FSub[total, F1_0]), F0_01]

\* WeightingProfile.__post_init__: "ValueError" if it raises, else "None"
__post_init__(self) ==
  IF TotalIsOff(TotalWeight(self)) THEN "ValueError" ELSE "None"

\* WeightingProfile(...) with the weights of the given hundredths: the new
\* profile, or the exception of __post_init__
Construct(hundredths) ==
  /\ Quiet
  /\ \E self \in {WeightingProfile(WeightLiterals[hundredths[1]],
                                   WeightLiterals[hundredths[2]],
                                   WeightLiterals[hundredths[3]],
                                   WeightLiterals[hundredths[4]],
                                   WeightLiterals[hundredths[5]])} :
       call' = [op |-> "WeightingProfile", hundredths |-> hundredths,
                result |-> IF __post_init__(self) = "ValueError"
                           THEN [raised |-> "ValueError"]
                           ELSE [profile |-> self]]
  /\ UNCHANGED <<cache, worker, environ, _key_lock, contexts, uploads, run, _store, clock, last_use, seed, previous, request, response>>

\* the module is imported: every profile of WEIGHTING_PROFILES is constructed
LoadProfiles ==
  /\ Quiet
  /\ call' = [op |-> "WEIGHTING_PROFILES",
              result |-> [industry \in DOMAIN WEIGHTING_PROFILES |->
                            __post_init__(WEIGHTING_PROFILES[industry])]]
  /\ UNCHANGED <<cache, worker, environ, _key_lock, contexts, uploads, run, _store, clock, last_use, seed, previous, request, response>>

NextProfiles ==
  \/ \E hundredths \in [1..5 -> DOMAIN WeightLiterals] : Construct(hundredths)
  \/ LoadProfiles
  \/ Restart

SpecProfiles == Init /\ [][NextProfiles]_vars

(***************************************************************************)
(* Properties of the weighting profiles                                    *)
(***************************************************************************)
\* the sum of five hundredths
SumOfHundredths(h) == h[1] + h[2] + h[3] + h[4] + h[5]

\* C21: the five weights of every configured profile sum to 1.0 within
\* 0.01 and the profile is constructed without error, and the construction
\* of a profile whose weights are off 1.0 by more than 0.01 raises an error
\* and yields no profile
C21_ProfilesSumToOne ==
  /\ call.op = "WEIGHTING_PROFILES" =>
     \A industry \in DOMAIN WEIGHTING_PROFILES :
       /\ call.result[industry] = "None"
       /\ SumOfHundredths(WeightPercents[industry]) \in 99..101
       /\ WEIGHTING_PROFILES[industry] =
            WeightingProfile(FLit[WeightPercents[industry][1], 100],
                             FLit[WeightPercents[industry][2], 100],
                             FLit[WeightPercents[industry][3], 100],
                             FLit[WeightPercents[industry][4], 100],
                             FLit[WeightPercents[industry][5], 100])
  /\ (/\ call.op = "WeightingProfile"
      /\ SumOfHundredths(call.hundredths) \notin 99..101)
       => call.result = [raised |-> "ValueError"]

\* a profile whose weights sum to 1.02 was refused
C21_Witness ==
  /\ call.op = "WeightingProfile"
  /\ SumOfHundredths(call.hundredths) = 102
  /\ call.result = [raised |-> "ValueError"]

(***************************************************************************)
(* _ApiKeyContext (backend/agents.py): every LLM call runs inside          *)
(* "async with _ApiKeyContext(api_key)".  The calls are coroutines of one  *)
(* event loop: a coroutine runs until it awaits, so __aenter__ is atomic   *)
(* up to its wait for the lock and from there on, __aexit__ is atomic, and *)
(* the body, which awaits the LLM, can be interleaved with anything.       *)
(* asyncio.Lock is not owned: release() unlocks it whoever locked it and   *)
(* wakes the first waiter, and acquire() queues behind waiting coroutines. *)
(***************************************************************************)
\* the api_key a context is created with: None, "" or the key of a user
ApiKeys == {None, Some(""), Some("sk-a"), Some("sk-b")}

\* the OPENAI_API_KEY the process can be started with
ServerKeys == {None, Some("sk-server")}

\* "if not self.api_key" fails
HasKey(api_key) == api_key # None /\ api_key # Some("")

\* the server process starts with OPENAI_API_KEY = key
Launch(key) ==
  /\ \A c \in Contexts : contexts[c].pc = "none"
  /\ environ.at_start # key
  /\ environ' = [OPENAI_API_KEY |-> key, at_start |-> key]
  /\ _key_lock' = Unlocked
  /\ UNCHANGED <<seed, call, previous, request, response, cache, worker, contexts, uploads, run, _store, clock, last_use>>

\* _ApiKeyContext(api_key)
Create(c, api_key) ==
  /\ contexts[c].pc = "none"
  /\ contexts' = [contexts EXCEPT ![c] =
       [pc |-> "created", api_key |-> api_key, _old |-> None,
        acquired |-> FALSE, released |-> FALSE]]
  /\ UNCHANGED <<seed, call, previous, request, response, cache, worker, environ, _key_lock, uploads, run, _store, clock, last_use>>

\* the end of __aenter__, with the lock taken: self._old = os.environ.get(..)
\* and os.environ["OPENAI_API_KEY"] = self.api_key
SwapIn(c) ==
  /\ contexts' = [contexts EXCEPT ![c].pc = "body", ![c].acquired = TRUE,
                                  ![c]._old = environ.OPENAI_API_KEY]
  /\ environ' = [environ EXCEPT !.OPENAI_API_KEY = contexts[c].api_key]

\* __aenter__ up to its first suspension: no key returns at once, a free
\* lock with no waiter is taken, else the coroutine waits for the lock
Enter(c) ==
  /\ contexts[c].pc = "created"
  /\ IF ~HasKey(contexts[c].api_key)
     THEN /\ contexts' = [contexts EXCEPT ![c].pc = "body"]
          /\ UNCHANGED <<environ, _key_lock>>
     ELSE IF ~_key_lock.locked /\ _key_lock.waiters = <<>>
     THEN /\ _key_lock' = [_key_lock EXCEPT !.locked = TRUE]
          /\ SwapIn(c)
     ELSE /\ _key_lock' = [_key_lock EXCEPT !.waiters = Append(@, c)]
          /\ contexts' = [contexts EXCEPT ![c].pc = "waiting"]
          /\ UNCHANGED environ
  /\ UNCHANGED <<seed, call, previous, request, response, cache, worker, uploads, run, _store, clock, last_use>>

\* the first waiter was woken by a release: it leaves the queue, sets
\* locked and goes on with __aenter__
Resume(c) ==
  /\ contexts[c].pc = "waiting"
  /\ _key_lock.woken
  /\ _key_lock.waiters # <<>>
  /\ Head(_key_lock.waiters) = c
  /\ _key_lock' = [locked |-> TRUE, waiters |-> Tail(_key_lock.waiters),
                   woken |-> FALSE]
  /\ SwapIn(c)
  /\ UNCHANGED <<seed, call, previous, request, response, cache, worker, uploads, run, _store, clock, last_use>>

\* the value __aexit__ leaves in OPENAI_API_KEY
Restored(context, now) ==
  IF context.api_key # None
  THEN IF context._old = None THEN None ELSE context._old
  ELSE now

\* __aexit__: restore the variable if api_key is not None, then release the
\* lock if it is locked
Exit(c) ==
  /\ contexts[c].pc = "body"
  /\ environ' = [environ EXCEPT
       !.OPENAI_API_KEY = Restored(contexts[c], environ.OPENAI_API_KEY)]
  /\ IF _key_lock.locked
     THEN /\ _key_lock' = [_key_lock EXCEPT !.locked = FALSE,
                                            !.woken = (_key_lock.waiters # <<>>)]
          /\ contexts' = [contexts EXCEPT ![c].pc = "exited", ![c].released = TRUE]
     ELSE /\ _key_lock' = _key_lock
          /\ contexts' = [contexts EXCEPT ![c].pc = "exited"]
  /\ UNCHANGED <<seed, call, previous, request, response, cache, worker, uploads, run, _store, clock, last_use>>

\* the call is over and its context is dropped
Drop(c) ==
  /\ contexts[c].pc = "exited"
  /\ contexts' = [contexts EXCEPT ![c] = NoContext]
  /\ UNCHANGED <<seed, call, previous, request, response, cache, worker, environ, _key_lock, uploads, run, _store, clock, last_use>>

NextKeys ==
  \/ \E key \in ServerKeys : Launch(key)
  \/ \E c \in Contexts, api_key \in ApiKeys : Create(c, api_key)
  \/ \E c \in Contexts : Enter(c)
  \/ \E c \in Contexts : Resume(c)
  \/ \E c \in Contexts : Exit(c)
  \/ \E c \in Contexts : Drop(c)

SpecKeys == Init /\ [][NextKeys]_vars

(***************************************************************************)
(* Properties of _ApiKeyContext                                            *)
(***************************************************************************)
\* the contexts with a key that are inside their body
KeyHolders ==
  {c \in Contexts : contexts[c].pc = "body" /\ HasKey(contexts[c].api_key)}

\* C23: whatever the interleaving of the LLM calls, at most one context
\* with a key is inside its body, OPENAI_API_KEY is the key of that context
\* as long as it is in its body, a context releases the lock only if it
\* acquired it, and when no context is left OPENAI_API_KEY has the value it
\* had when the process started
C23_KeySwapIsExclusive ==
  /\ Cardinality(KeyHolders) <= 1
  /\ \A c \in KeyHolders : environ.OPENAI_API_KEY = contexts[c].api_key
  /\ \A c \in Contexts :
       (contexts[c].pc = "exited" /\ contexts[c].released) => contexts[c].acquired
  /\ (\A c \in Contexts : contexts[c].pc \in {"none", "exited"})
       => environ.OPENAI_API_KEY = environ.at_start

(***************************************************************************)
(* The endpoints (backend/app.py).  A handler either returns, which is     *)
(* status 200, or raises an HTTPException with a status; the agent it      *)
(* awaits returns a result or raises.                                      *)
(***************************************************************************)
\* the size limit in bytes: MAX_UPLOAD_MB is 10 by default
MAX_UPLOAD_BYTES == 10485760

\* the values of the X-OpenAI-Key header: missing, empty, or a key
OpenAIKeyHeaders == {None, Some(""), Some("sk-a")}

\* the values of the X-LLM-Provider header
ProviderHeaders ==
  {None,
   Some(<<"o", "p", "e", "n", "a", "i">>),
   Some(<<"O", "p", "e", "n", "A", "I">>),
   Some(<<"a", "n", "t", "h", "r", "o", "p", "i", "c">>)}

\* the names of the uploaded files
Filenames ==
  {<<"c", "v", ".", "p", "d", "f">>,
   <<"C", "V", "2", ".", "P", "D", "F">>,
   <<"c", "v", ".", "d", "o", "c", "x">>}

\* the sizes of the uploaded files
FileSizes == {1024, MAX_UPLOAD_BYTES, MAX_UPLOAD_BYTES + 1}

\* the Content-Length header: missing, malformed, 2048, or one byte more
\* than MAX_UPLOAD_BYTES
ContentLengths ==
  {None,
   Some(<<"a", "b", "c">>),
   Some(<<"2", "0", "4", "8">>),
   Some(<<"1", "0", "4", "8", "5", "7", "6", "1">>)}

\* what the awaited agent does
AgentOutcomes == {"returns", "raises"}

\* "not x_openai_key"
NoKey(x_openai_key) == x_openai_key = None \/ x_openai_key = Some("")

\* (x_llm_provider or "openai").lower()
ProviderOf(x_llm_provider) ==
  IF x_llm_provider = None \/ x_llm_provider = Some(<<>>)
  THEN <<"o", "p", "e", "n", "a", "i">>
  ELSE lower[x_llm_provider[1]]

\* s.endswith(suffix)
EndsWith(s, suffix) ==
  /\ Len(s) >= Len(suffix)
  /\ SubSeq(s, Len(s) - Len(suffix) + 1, Len(s)) = suffix

\* the HTTPException(status_code) a handler raises, with the agent not called
Rejected(status_code) == [status_code |-> status_code, agent_called |-> FALSE]

\* the key and provider checks that open every handler: the status they
\* raise, or 0 if the handler goes on
CheckedHeaders(require_user_api_key, x_openai_key, x_llm_provider) ==
  IF require_user_api_key /\ NoKey(x_openai_key) THEN 401
  ELSE IF ProviderOf(x_llm_provider) # <<"o", "p", "e", "n", "a", "i">> THEN 400
  ELSE 0

\* a handler that lets its HTTPException through
ReRaised(status_code) == status_code

\* "except Exception as e: raise HTTPException(status_code=400, ...)": the
\* HTTPException raised inside the try block is an Exception too
Caught400(status_code) == 400

\* a handler whose only except clause is "except Exception": it answers
\* 400 whatever was raised, and 200 if the agent returns
AnswerOf(checked, outcome) ==
  IF checked # 0 THEN Rejected(Caught400(checked))
  ELSE IF outcome = "raises"
  THEN [status_code |-> Caught400(500), agent_called |-> TRUE]
  ELSE [status_code |-> 200, agent_called |-> TRUE]

\* POST /analyze-job-vacancy
api_analyze_job_vacancy(require_user_api_key, x_openai_key, x_llm_provider, outcome) ==
  /\ Quiet
  /\ call' = [op |-> "/analyze-job-vacancy",
              require_user_api_key |-> require_user_api_key,
              x_openai_key |-> x_openai_key, x_llm_provider |-> x_llm_provider,
              response |-> AnswerOf(CheckedHeaders(require_user_api_key,
                                                   x_openai_key, x_llm_provider),
                                    outcome)]
  /\ UNCHANGED <<seed, previous, request, response, cache, worker, environ, _key_lock, contexts, uploads, run, _store, clock, last_use>>

\* POST /score-cv-match: the records are sanitized and validated, which can
\* raise, before the agent is called
api_score_cv_match(require_user_api_key, x_openai_key, x_llm_provider, records_valid, outcome) ==
  /\ Quiet
  /\ call' = [op |-> "/score-cv-match",
              require_user_api_key |-> require_user_api_key,
              x_openai_key |-> x_openai_key, x_llm_provider |-> x_llm_provider,
              response |->
                IF CheckedHeaders(require_user_api_key, x_openai_key, x_llm_provider) = 0
                   /\ ~records_valid
                THEN Rejected(Caught400(422))
                ELSE AnswerOf(CheckedHeaders(require_user_api_key,
                                             x_openai_key, x_llm_provider),
                              outcome)]
  /\ UNCHANGED <<seed, previous, request, response, cache, worker, environ, _key_lock, contexts, uploads, run, _store, clock, last_use>>

\* int(s) raises ValueError
Malformed(s) == s = <<>> \/ \E i \in 1..Len(s) : s[i] \notin Digits

\* the Content-Length check of /analyze-cv: a malformed header is ignored
TooLongDeclared(content_length) ==
  /\ content_length # None
  /\ ~Malformed(content_length[1])
  /\ ParseInt(content_length[1]) > MAX_UPLOAD_BYTES

\* /analyze-cv from the point where the file was written to UPLOAD_DIR: too
\* large a file is unlinked and refused, else the agent is awaited and the
\* file is unlinked once the agent has returned (RETAIN_UPLOADED_CVS is False)
Written(filename, size, outcome) ==
  IF size > MAX_UPLOAD_BYTES
  THEN [files |-> uploads \ {filename}, response |-> Rejected(413)]
  ELSE IF outcome = "raises"
  THEN [files |-> uploads \cup {filename},
        response |-> [status_code |-> 500, agent_called |-> TRUE]]
  ELSE [files |-> uploads \ {filename},
        response |-> [status_code |-> 200, agent_called |-> TRUE]]

\* what /analyze-cv does: the files it leaves in UPLOAD_DIR and its answer
AnalyzeCv(checked, content_length, filename, size, outcome) ==
  IF checked # 0 THEN [files |-> uploads, response |-> Rejected(ReRaised(checked))]
  ELSE IF TooLongDeclared(content_length)
  THEN [files |-> uploads, response |-> Rejected(413)]
  ELSE IF ~EndsWith(lower[filename], <<".", "p", "d", "f">>)
  THEN [files |-> uploads, response |-> Rejected(400)]
  ELSE Written(filename, size, outcome)

\* POST /analyze-cv
api_analyze_cv(require_user_api_key, x_openai_key, x_llm_provider, content_length, filename, size, outcome) ==
  /\ Quiet
  /\ \E done \in {AnalyzeCv(CheckedHeaders(require_user_api_key, x_openai_key,
                                           x_llm_provider),
                            content_length, filename, size, outcome)} :
       /\ uploads' = done.files
       /\ call' = [op |-> "/analyze-cv",
                   require_user_api_key |-> require_user_api_key,
                   x_openai_key |-> x_openai_key, x_llm_provider |-> x_llm_provider,
                   filename |-> filename, size |-> size, outcome |-> outcome,
                   response |-> done.response]
  /\ UNCHANGED <<seed, previous, request, response, cache, worker, environ, _key_lock, contexts, run, _store, clock, last_use>>

\* the answer was sent
Answered ==
  /\ call.op \in {"/analyze-job-vacancy", "/analyze-cv", "/score-cv-match"}
  /\ call' = Idle
  /\ UNCHANGED <<seed, previous, request, response, cache, worker, environ, _key_lock, contexts, uploads, run, _store, clock, last_use>>

NextApi ==
  \/ \E require_user_api_key \in BOOLEAN, x_openai_key \in OpenAIKeyHeaders,
        x_llm_provider \in ProviderHeaders, outcome \in AgentOutcomes :
       api_analyze_job_vacancy(require_user_api_key, x_openai_key, x_llm_provider, outcome)
  \/ \E require_user_api_key \in BOOLEAN, x_openai_key \in OpenAIKeyHeaders,
        x_llm_provider \in ProviderHeaders, content_length \in ContentLengths,
        filename \in Filenames, size \in FileSizes, outcome \in AgentOutcomes :
       api_analyze_cv(require_user_api_key, x_openai_key, x_llm_provider,
                      content_length, filename, size, outcome)
  \/ \E require_user_api_key \in BOOLEAN, x_openai_key \in OpenAIKeyHeaders,
        x_llm_provider \in ProviderHeaders, records_valid \in BOOLEAN,
        outcome \in AgentOutcomes :
       api_score_cv_match(require_user_api_key, x_openai_key, x_llm_provider,
                          records_valid, outcome)
  \/ Answered

SpecApi == Init /\ [][NextApi]_vars

(***************************************************************************)
(* Properties of the endpoints                                             *)
(***************************************************************************)
\* C25: when a request of /analyze-cv is over, whether the analysis
\* returned, the file was too large or the analysis raised an error, the
\* file of the request is not in the upload directory
C25_UploadNeverRetained ==
  call.op = "/analyze-cv" => call.filename \notin uploads

\* C28: on each of the three endpoints a request without the
\* X-OpenAI-Key header, when the key of the user is required, is answered
\* with status 401 and no agent is called
C28_MissingKeyIs401 ==
  (/\ call.op \in {"/analyze-job-vacancy", "/analyze-cv", "/score-cv-match"}
   /\ call.require_user_api_key
   /\ call.x_openai_key = None)
    => call.response = [status_code |-> 401, agent_called |-> FALSE]

(***************************************************************************)
(* _run_with_retries (backend/agents.py).  The call awaits the attempt and *)
(* the sleep between two attempts; run.coroutines lists the coroutines the *)
(* factory returned, run.outcomes how each attempt ended, run.slept the    *)
(* delays of the sleeps begun so far.                                      *)
(***************************************************************************)
MaxAttempts == 5

\* how an attempt that does not return ends: the coroutine raises, or
\* asyncio.wait_for raises TimeoutError
Failures == {"error", "timeout"}

\* a loop that never breaks
NeverLast(i, attempts) == FALSE

\* "if i >= attempts: break"
IsLast(i, attempts) == i >= attempts

\* _run_with_retries(run_coro_factory, timeout, attempts=attempts) up to
\* its first await: backoff = 0.5, and the first attempt is begun
StartRun(attempts) ==
  /\ run.pc = "none"
  /\ run' = [pc |-> "attempting", attempts |-> attempts, i |-> 1,
             backoff |-> F0_5, coroutines |-> <<1>>, outcomes |-> <<>>,
             slept |-> <<>>]
  /\ UNCHANGED <<seed, call, previous, request, response, cache, worker, environ, _key_lock, contexts, uploads, _store, clock, last_use>>

\* the attempt returns: its result is returned
AttemptReturns ==
  /\ run.pc = "attempting"
  /\ run' = [run EXCEPT !.pc = "returned",
                        !.outcomes = Append(@, "result")] @@ [result |-> run.i]
  /\ UNCHANGED <<seed, call, previous, request, response, cache, worker, environ, _key_lock, contexts, uploads, _store, clock, last_use>>

\* the attempt raises or times out: last_exc = e, then the loop is left and
\* last_exc raised, or asyncio.sleep(backoff + 0.1 * i) is begun and
\* backoff doubled
AttemptFails(failure) ==
  /\ run.pc = "attempting"
  /\ IF IsLast(run.i, run.attempts)
     THEN run' = [run EXCEPT !.pc = "raised",
                             !.outcomes = Append(@, failure)]
                   @@ [last_exc |-> [failure |-> failure, attempt |-> run.i]]
     ELSE run' = [run EXCEPT
            !.pc = "sleeping",
            !.outcomes = Append(@, failure),
            !.slept = Append(@, FAdd[run.backoff, FMul[F0_1, FFromInt[run.i]]]),
            !.backoff = FMul[run.backoff, FFromInt[2]]]
  /\ UNCHANGED <<seed, call, previous, request, response, cache, worker, environ, _key_lock, contexts, uploads, _store, clock, last_use>>

\* the sleep is over: the next attempt is begun with a new coroutine, or
\* the loop is over and last_exc is raised
SleepEnds ==
  /\ run.pc = "sleeping"
  /\ IF run.i + 1 <= run.attempts
     THEN run' = [run EXCEPT !.pc = "attempting", !.i = run.i + 1,
                             !.coroutines = Append(@, run.i + 1)]
     ELSE run' = [run EXCEPT !.pc = "raised"]
                   @@ [last_exc |-> [failure |-> run.outcomes[run.i],
                                     attempt |-> run.i]]
  /\ UNCHANGED <<seed, call, previous, request, response, cache, worker, environ, _key_lock, contexts, uploads, _store, clock, last_use>>

\* the caller has the result or the exception
RunOver ==
  /\ run.pc \in {"returned", "raised"}
  /\ run' = NoRun
  /\ UNCHANGED <<seed, call, previous, request, response, cache, worker, environ, _key_lock, contexts, uploads, _store, clock, last_use>>

NextRetries ==
  \/ \E attempts \in 1..MaxAttempts : StartRun(attempts)
  \/ AttemptReturns
  \/ \E failure \in Failures : AttemptFails(failure)
  \/ SleepEnds
  \/ RunOver

SpecRetries == Init /\ [][NextRetries]_vars

(***************************************************************************)
(* Properties of _run_with_retries                                         *)
(***************************************************************************)
\* C26: _run_with_retries makes at most `attempts` attempts, each with a
\* coroutine of its own; it returns the result of the first attempt that
\* returns and makes no attempt after it; if every attempt fails or times
\* out it raises the exception of the last one; it sleeps between two
\* attempts, each time longer than before, and not after the last attempt
C26_BoundedRetries ==
  run.pc # "none" =>
    /\ Len(run.coroutines) <= run.attempts
    /\ \A j, k \in 1..Len(run.coroutines) :
         run.coroutines[j] = run.coroutines[k] => j = k
    /\ \A j \in 1..Len(run.outcomes) :
         run.outcomes[j] = "result" => (j = Len(run.outcomes) /\ run.pc = "returned")
    /\ run.pc = "returned" =>
         /\ Len(run.outcomes) = Len(run.coroutines)
         /\ run.outcomes[Len(run.outcomes)] = "result"
         /\ run.result = run.coroutines[Len(run.coroutines)]
    /\ run.pc = "raised" =>
         /\ Len(run.coroutines) = run.attempts
         /\ Len(run.outcomes) = run.attempts
         /\ run.last_exc = [failure |-> run.outcomes[run.attempts],
                            attempt |-> run.attempts]
         /\ Len(run.slept) = run.attempts - 1
    /\ Len(run.slept) = IF run.pc = "sleeping" THEN Len(run.coroutines)
                        ELSE Len(run.coroutines) - 1
    /\ \A j \in 1..Len(run.slept) : FGt[run.slept[j], FZero]
    /\ \A j, k \in 1..Len(run.slept) : j < k => FLt[run.slept[j], run.slept[k]]

\* the default three attempts failed: two sleeps, of 0.6 and of more, and
\* the error of the third attempt is raised
C26_Witness ==
  /\ run.pc = "raised"
  /\ run.attempts = 3
  /\ run.outcomes = <<"timeout", "error", "error">>
  /\ Len(run.slept) = 2
  /\ run.slept[1] = F0_6
  /\ FLt[FFromInt[1], run.slept[2]]
  /\ run.last_exc = [failure |-> "error", attempt |-> 3]

(***************************************************************************)
(* TTLCache (backend/cache_utils.py).  get and set hold the cache's lock   *)
(* and await nothing inside it, so each is one step.  shared_cache has     *)
(* maxsize 512 and a ttl of 1200 seconds; the model takes a smaller cache  *)
(* and a shorter ttl, so that entries are evicted and expire.              *)
(***************************************************************************)
StoreMaxsize == 2
ttl == 2
MaxClock == 6

CacheKeys == {"vacancy:1", "vacancy:2", "cv:1"}

\* the position of the key in _store, 0 if it is not stored
StoredAt(key) ==
  IF \E i \in 1..Len(_store) : _store[i].key = key
  THEN CHOOSE i \in 1..Len(_store) : _store[i].key = key
  ELSE 0

\* _store without its entry at position i
Popped(i) == SubSeq(_store, 1, i - 1) \o SubSeq(_store, i + 1, Len(_store))

\* an entry that never expires
NeverExpired(ts) == FALSE

\* _is_expired(ts): (time.time() - ts) > self.ttl
_is_expired(ts) == clock - ts > ttl

\* a second goes by
Tick ==
  /\ clock < MaxClock
  /\ clock' = clock + 1
  /\ UNCHANGED <<seed, call, previous, request, response, cache, worker, environ, _key_lock, contexts, uploads, run, _store, last_use>>

\* await shared_cache.get(key): None for a key that is not stored or has
\* expired, which is popped; else the entry moves to the end and its value
\* is returned
TTLGet(key) ==
  /\ \E at \in {StoredAt(key)} :
       IF at = 0
       THEN /\ call' = [op |-> "get", key |-> key, at |-> clock,
                        item |-> None, result |-> None]
            /\ UNCHANGED <<_store, last_use>>
       ELSE IF _is_expired(_store[at].ts)
       THEN /\ call' = [op |-> "get", key |-> key, at |-> clock,
                        item |-> Some(_store[at]), result |-> None]
            /\ _store' = Popped(at)
            /\ UNCHANGED last_use
       ELSE /\ call' = [op |-> "get", key |-> key, at |-> clock,
                        item |-> Some(_store[at]),
                        result |-> Some(_store[at].value)]
            /\ _store' = Append(Popped(at), _store[at])
            /\ last_use' = (key :> clock) @@ last_use
  /\ UNCHANGED <<seed, previous, request, response, cache, worker, environ, _key_lock, contexts, uploads, run, clock>>

\* the store cut down to maxsize, oldest entries first, by
\* popitem(last=False)
Trimmed(store) ==
  IF Len(store) > StoreMaxsize
  THEN SubSeq(store, Len(store) - StoreMaxsize + 1, Len(store))
  ELSE store

\* await shared_cache.set(key, value): the entry goes to the end with the
\* time of the call, then the oldest entries are popped while the store is
\* too long.  The value set is the time of the call.
TTLSet(key) ==
  /\ \E at \in {StoredAt(key)} :
       \E store \in {Append(IF at = 0 THEN _store ELSE Popped(at),
                            [key |-> key, ts |-> clock, value |-> clock])} :
         /\ _store' = Trimmed(store)
         /\ call' = [op |-> "set", key |-> key, at |-> clock,
                     evicted |-> SubSeq(store, 1, Len(store) - Len(Trimmed(store))),
                     used |-> (key :> clock) @@ last_use]
  /\ last_use' = (key :> clock) @@ last_use
  /\ UNCHANGED <<seed, previous, request, response, cache, worker, environ, _key_lock, contexts, uploads, run, clock>>

NextTTL ==
  \/ Tick
  \/ \E key \in CacheKeys : TTLGet(key)
  \/ \E key \in CacheKeys : TTLSet(key)
  \/ Restart

SpecTTL == Init /\ [][NextTTL]_vars

(***************************************************************************)
(* Properties of TTLCache                                                  *)
(***************************************************************************)
\* C27: the store never holds more than maxsize entries; the entry a set
\* evicts is one whose last set or hit is not later than that of any entry
\* that stays; get returns no value that was set more than ttl seconds
\* before, and an entry get finds expired is gone from the store
C27_BoundedLruTtl ==
  /\ Len(_store) <= StoreMaxsize
  /\ \A i, j \in 1..Len(_store) : _store[i].key = _store[j].key => i = j
  /\ call.op = "set" =>
       /\ StoredAt(call.key) # 0 \/ clock # call.at
       /\ \A e \in 1..Len(call.evicted), i \in 1..Len(_store) :
            clock = call.at =>
              /\ call.evicted[e].key # call.key
              /\ call.used[call.evicted[e].key] <= call.used[_store[i].key]
  /\ call.op = "get" =>
       /\ call.result # None =>
            /\ call.at - call.result[1] <= ttl
            /\ call.item # None /\ call.result[1] = call.item[1].value
       /\ (call.item # None /\ call.at - call.item[1].value > ttl) =>
            /\ call.result = None
            /\ clock = call.at => StoredAt(call.key) = 0

\* a set into the full store evicted the entry used longest ago, though it
\* was not the one set first
C27_Witness ==
  /\ call.op = "set"
  /\ clock = call.at
  /\ Len(call.evicted) = 1
  /\ Len(_store) = StoreMaxsize
  /\ \A i \in 1..Len(_store) :
       /\ call.used[call.evicted[1].key] < call.used[_store[i].key]
       /\ _store[i].key # call.key => _store[i].ts < call.evicted[1].ts

(***************************************************************************)
(* validation.py: DataValidator.validate_matching_score on the record of   *)
(* scoring_engine.calculate_weighted_score                                 *)
(***************************************************************************)
F0_85 == [neg |-> FALSE, m |-> <<13107,26214,19660,217>>, e |-> -53]
F0_02 == [neg |-> FALSE, m |-> <<5243,3932,27525,163>>, e |-> -58]

\* f"{weight:.0%}"
PercentText(weight) ==
  IntToStr(FTrunc[FAdd[FMul[weight, FFromInt[100]], F0_5]]) \o <<"%">>

\* len(f"{related_bonus:.1f}"): the digits before the point, the point and
\* one digit
OneDecimalLength(related_bonus) == Len(IntToStr(FTrunc[related_bonus])) + 2

\* len(explanation.strip()) of an explanation the engine formats; each one
\* starts and ends with a character that is no whitespace
StrippedLength(explanation) ==
  IF explanation.text = "No specific experience requirement" THEN 34
  ELSE IF explanation.text = "No specific technical skills required" THEN 37
  ELSE IF explanation.text = "Unable to parse required technical skills" THEN 41
  ELSE IF explanation.text = "{cv_years} years experience (>={required_years} required)"
  THEN Len(IntToStr(explanation.cv_years)) + 20
       + Len(IntToStr(explanation.required_years)) + 10
  ELSE IF explanation.text = "{cv_years} years experience (close to {required_years} required)"
  THEN Len(IntToStr(explanation.cv_years)) + 28
       + Len(IntToStr(explanation.required_years)) + 10
  ELSE IF explanation.text = "{cv_years} years experience (<{required_years} required)"
  THEN Len(IntToStr(explanation.cv_years)) + 20
       + Len(IntToStr(explanation.required_years)) + 10
  ELSE IF explanation.text = "{match_count}/{total_required} required skills matched"
  THEN Len(IntToStr(explanation.match_count)) + 1
       + Len(IntToStr(explanation.total_required)) + 24
       + (IF FGt[explanation.related_bonus, FZero]
          THEN 3 + OneDecimalLength(explanation.related_bonus) + 22 ELSE 0)
  ELSE \* overall_exp
       57 + Len(explanation.industry)
       + Len(IntToStr(explanation.tech_score))
       + Len(PercentText(ProfileOf(explanation.industry).technical_skills_weight))
       + Len(IntToStr(explanation.exp_score))
       + Len(PercentText(ProfileOf(explanation.industry).experience_weight))

\* abs(avg_component - overall) > 10
NarrowTolerance(avg_component, overall) ==
  FGt[FAbs(FSub[avg_component, FFromInt[overall]]), FFromInt[10]]

\* abs(avg_component - overall) > 20
LargeDiscrepancy(avg_component, overall) ==
  FGt[FAbs(FSub[avg_component, FFromInt[overall]]), FFromInt[20]]

\* sum(components) / len(components)
AvgComponent(score) ==
  FDiv[FFromInt[score.technical_skills_score + score.soft_skills_score
                + score.experience_score + score.qualifications_score
                + score.key_responsibilities_score],
       FFromInt[5]]

_check_component_score_consistency(score) ==
  IF LargeDiscrepancy(AvgComponent(score), score.overall_match_score)
  THEN <<ValidationIssue("overall_match_score", "inconsistency",
           "Overall score ({overall}) differs significantly from component average ({avg_component:.1f})",
           "medium", None)>>
  ELSE <<>>

\* the issues of the matched skills, in the order the set gives them
RECURSIVE MatchedSkillIssues(_, _, _)
MatchedSkillIssues(matched_skills, cv_tech_skills, job_tech_skills) ==
  IF matched_skills = <<>> THEN <<>>
  ELSE (IF Head(matched_skills) \notin cv_tech_skills
        THEN <<ValidationIssue("matched_skills", "invalid",
                 "Matched skill '{skill}' not found in CV", "high", None)>>
        ELSE <<>>)
       \o (IF Head(matched_skills) \notin job_tech_skills
           THEN <<ValidationIssue("matched_skills", "invalid",
                    "Matched skill '{skill}' not found in job requirements",
                    "high", None)>>
           ELSE <<>>)
       \o MatchedSkillIssues(Tail(matched_skills), cv_tech_skills, job_tech_skills)

\* getattr(score, 'matched_skills', None): MatchingScore has no such field
_check_skill_matching_consistency(score, cv_analysis, job_requirements, hash_seed) ==
  IF "matched_skills" \notin DOMAIN score THEN <<>>
  ELSE MatchedSkillIssues(
         IterationOrder(hash_seed, {lower[s] : s \in Range(score.matched_skills)}),
         {lower[s] : s \in Range(cv_analysis.key_information.technical_skills)},
         {lower[s] : s \in Range(job_requirements.required_skills.technical)})

\* the explanations checked, with their field names
CheckedExplanations(score) ==
  <<<<"overall_explanation", score.overall_explanation>>,
    <<"technical_skills_explanation", score.technical_skills_explanation>>,
    <<"experience_explanation", score.experience_explanation>>>>

_check_explanation_quality(score) ==
  LET explanations == CheckedExplanations(score)
      brief == SelectSeq(explanations, LAMBDA e : StrippedLength(e[2]) < 10)
  IN  [i \in 1..Len(brief) |->
         ValidationIssue(brief[i][1], "missing",
                         "Very brief explanation provided", "low", None)]

\* 0.85 - (len(critical_issues) * 0.15) - (len(issues) * 0.02)
ScoreConfidence(critical_issues, issues) ==
  FSub[FSub[F0_85, FMul[FFromInt[Len(critical_issues)], F0_15]],
       FMul[FFromInt[Len(issues)], F0_02]]

ScoreResult(issues) ==
  ValidationResult(OfSeverity(issues, "critical"),
                   ScoreConfidence(OfSeverity(issues, "critical"), issues),
                   issues)

validate_matching_score(score, cv_analysis, job_requirements, hash_seed) ==
  ScoreResult(_check_component_score_consistency(score)
              \o _check_skill_matching_consistency(score, cv_analysis,
                                                   job_requirements, hash_seed)
              \o _check_explanation_quality(score))

\* validator.validate_matching_score(score, cv_analysis, job_requirements)
\* on the MatchingScore process p returned
ValidateScore(p) ==
  /\ call.op = "idle"
  /\ request # None
  /\ response[p] # None
  /\ "overall_match_score" \in DOMAIN response[p][1]
  /\ call' = [op |-> "validate_matching_score", proc |-> p,
              score |-> response[p][1],
              result |-> validate_matching_score(response[p][1],
                                                 request[1].cv_analysis,
                                                 request[1].job_requirements,
                                                 seed[p][1])]
  /\ UNCHANGED <<cache, worker, environ, _key_lock, contexts, uploads, run, _store, clock, last_use, seed, previous, request, response>>

NextScoreValidation ==
  \/ \E c \in 1..Len(CVs), j \in 1..Len(Jobs) : Submit(CVs[c], Jobs[j])
  \/ \E p \in Procs : Score(p)
  \/ \E p \in Procs : ValidateScore(p)
  \/ Restart

SpecScoreValidation == Init /\ [][NextScoreValidation]_vars

(***************************************************************************)
(* Properties of validate_matching_score                                   *)
(***************************************************************************)
\* the validator has answered for the score of a process
ScoreValidated == call.op = "validate_matching_score"

\* the sum of the five dimension scores and five times the overall score
\* differ by more than 5 * n
MeanOffBy(score, n) ==
  \E gap \in {score.technical_skills_score + score.soft_skills_score
              + score.experience_score + score.qualifications_score
              + score.key_responsibilities_score
              - 5 * score.overall_match_score} :
    gap > 5 * n \/ gap < -(5 * n)

\* C29: validate_matching_score applied to the record calculate_weighted_score
\* returned reports no issue: the mean of the five dimension scores is
\* within 20 of the overall score, no matched_skills field is exposed, so
\* the result is valid with confidence 0.85
C29_EngineOutputPassesValidation ==
  ScoreValidated =>
    /\ call.result.issues = <<>>
    /\ call.result.is_valid
    /\ call.result.confidence_score = F0_85
    /\ ~MeanOffBy(call.score, 20)
    /\ "matched_skills" \notin DOMAIN call.score

\* a score whose mean is more than 10 from the overall score was validated
C29_Witness ==
  /\ ScoreValidated
  /\ MeanOffBy(call.score, 10)
  /\ call.result.is_valid
  /\ call.result.issues = <<>>

(***************************************************************************)
(* The soft skills score and the gaps of the report                        *)
(***************************************************************************)
\* seq is a sub-sequence of <<"Technical skills gap",
\* "Experience below requirements">>, in that order
IsOrderedGaps(seq) ==
  seq \in {<<>>,
           <<"Technical skills gap">>,
           <<"Experience below requirements">>,
           <<"Technical skills gap", "Experience below requirements">>}

\* C30: with the default confidences the soft skills score of the report is
\* 75 or lies in 63..91, the gap "Soft skills development needed" is never
\* emitted, and gaps is a sub-sequence of <<"Technical skills gap",
\* "Experience below requirements">> in that order
C30_SoftGapNeverEmitted ==
  \A p \in Procs : Returned(p) =>
    /\ \/ response[p][1].soft_skills_score = 75
       \/ response[p][1].soft_skills_score \in 63..91
    /\ request[1].job_requirements.required_skills.soft = <<>>
         => response[p][1].soft_skills_score = 75
    /\ request[1].job_requirements.required_skills.soft # <<>>
         => response[p][1].soft_skills_score \in 63..91
    /\ \A i \in 1..Len(response[p][1].gaps) :
         response[p][1].gaps[i] # "Soft skills development needed"
    /\ IsOrderedGaps(response[p][1].gaps)

\* a job that requires soft skills the candidate has in part only, and a
\* report with both gaps
C30_Witness ==
  \E p \in Procs :
    /\ Returned(p)
    /\ request[1].job_requirements.required_skills.soft # <<>>
    /\ response[p][1].soft_skills_score \in 63..74
    /\ response[p][1].gaps = <<"Technical skills gap",
                               "Experience below requirements">>

====
